---- MODULE Spec2Model ----
(***************************************************************************)
(* A model of the type-transform library (src/src/index.js): seven pure    *)
(* functions over JavaScript values.  A value is a tagged record, a text   *)
(* is a sequence of one-character strings, a call's outcome is a returned  *)
(* value or a thrown error.  The platform operations the functions         *)
(* delegate to (typeof, +, String, Number, parseInt, parseFloat, BigInt,   *)
(* Boolean, JSON.stringify, JSON.parse) are modelled after ECMAScript.     *)
(* The objects are arrays, functions and plain objects with data members   *)
(* of their own under text and symbol keys.  What a function returns or    *)
(* throws may depend on its argument and on how many calls of it came      *)
(* before; a call changes nothing else.  A platform operation that may     *)
(* call functions takes the calls made so far and gives its outcome        *)
(* together with the calls made when it is over.                           *)
(***************************************************************************)
EXTENDS Integers, Sequences, FiniteSets, TLC

VARIABLES
    fn,     \* the function that was called, "none" before the call
    a,      \* first argument
    b,      \* second argument (addValues, paranoidEquals), safeJsonParse's fallback
    type,   \* coerceToType's target type tag
    same,   \* paranoidEquals: whether a and b are one object
    out     \* the outcome of the call

vars == <<fn, a, b, type, same, out>>

(***************************************************************************)
(* Bounds of the checked input domains.                                    *)
(***************************************************************************)
MaxTextLen == 3      \* longest text handed to convertToNumber / coerceToType
MaxArrayLen == 2     \* longest array literal among the inputs
MaxJsonLen == 4      \* longest text handed to safeJsonParse

(***************************************************************************)
(* Values.                                                                 *)
(***************************************************************************)
\* A Number is a double.  A finite one is held as the shortest decimal that
\* names it (the digits Number::toString prints): sign neg, digits ds (most
\* significant first, no zero at either end) and exponent x, for
\* ds * 10^x; zero is ds = <<>>, x = 0.
Str(s)    == [t |-> "string", s |-> s]
Finite(neg, ds, x) == [t |-> "number", kind |-> "finite", neg |-> neg, ds |-> ds, x |-> x]
Zero      == Finite(FALSE, <<>>, 0)
NaN       == [t |-> "number", kind |-> "NaN", neg |-> FALSE, ds |-> <<>>, x |-> 0]
PosInf    == [t |-> "number", kind |-> "Infinity", neg |-> FALSE, ds |-> <<>>, x |-> 0]
NegInf    == [t |-> "number", kind |-> "Infinity", neg |-> TRUE, ds |-> <<>>, x |-> 0]
NegZero   == [t |-> "number", kind |-> "-0", neg |-> TRUE, ds |-> <<>>, x |-> 0]
Bool(v)   == [t |-> "boolean", b |-> v]
\* A big integer: its sign and the decimal digits of its magnitude (<<>> for 0n).
BigOf(neg, ds) == [t |-> "bigint", neg |-> neg, ds |-> ds]
\* A symbol made by Symbol(d): its description and a number that tells it
\* from the other symbols of that description.  The well-known symbols of
\* the language.
SymOf(d, id) == [t |-> "symbol", d |-> d, known |-> FALSE, id |-> id]
Sym(d)    == SymOf(d, 1)
SymbolToPrimitive == [t |-> "symbol", known |-> TRUE, id |-> 0,
                      d |-> <<"S", "y", "m", "b", "o", "l", ".", "t", "o",
                              "P", "r", "i", "m", "i", "t", "i", "v", "e">>]
SymbolToStringTag == [t |-> "symbol", known |-> TRUE, id |-> 0,
                      d |-> <<"S", "y", "m", "b", "o", "l", ".", "t", "o",
                              "S", "t", "r", "i", "n", "g", "T", "a", "g">>]
Null      == [t |-> "null"]
Undefined == [t |-> "undefined"]
Arr(es)   == [t |-> "array", es |-> es]
Obj(ps)   == [t |-> "object", ps |-> ps]
\* A function: the number id under which its calls are counted (0 for the
\* functions that do the same on every call; a function that counts its
\* calls has an id of its own, and is one function wherever it is held),
\* its source text, and what it does: body[n] is its answer to its n-th
\* call, the last answer being that to every later call.  An answer is the
\* outcome (a value returned or an error thrown) for each listed argument,
\* and the outcome for every other argument.
FunOf(id, src, body) == [t |-> "function", id |-> id, src |-> src, body |-> body]
Answer(cases, rest) == [cases |-> cases, rest |-> rest]
On(arg, res) == [arg |-> arg, res |-> res]
Prop(k, v) == [k |-> k, v |-> v]

IsArray(v)  == v.t = "array"
IsNumber(v) == v.t = "number"
IsString(v) == v.t = "string"
IsObject(v) == v.t \in {"array", "object", "function"}

\* typeof: null and arrays are "object".
typeof(v) ==
    IF v.t \in {"null", "array", "object"} THEN "object" ELSE v.t

(***************************************************************************)
(* Outcomes.  The library throws Error with a message of its own; the      *)
(* platform throws TypeError / RangeError / SyntaxError, whose message     *)
(* text is the engine's.                                                   *)
(***************************************************************************)
EngineText == "<engine-defined>"
Return(v) == [kind |-> "return", v |-> v]
Throw(msg) == [kind |-> "throw", error |-> "Error", message |-> msg]
NativeThrow(name) == [kind |-> "throw", error |-> name, message |-> EngineText]
Returned(o) == o.kind = "return"
Thrown(o)   == o.kind = "throw"
ThrownWith(o, msg) == o.kind = "throw" /\ o.error = "Error" /\ o.message = msg

\* The outcome of an operation and the calls made when it is over: the ids
\* of the functions called, in the order of the calls.
Step(o, log) == [o |-> o, log |-> log]

\* The body of a function that does the same on every call, the function
\* with an empty body, and a function that returns or throws res.
Always(res) == <<Answer(<<>>, res)>>
Fun(src) == FunOf(0, src, Always(Return(Undefined)))
Constant(src, res) == FunOf(0, src, Always(res))

\* The call f(arg) after the calls of log: the answer is that of the call's
\* number, the outcome that of the first case listed for arg.
CallsOf(f, log) == Cardinality({i \in 1..Len(log) : log[i] = f.id})
AnswerAt(f, log) ==
    f.body[IF CallsOf(f, log) < Len(f.body) THEN CallsOf(f, log) + 1 ELSE Len(f.body)]
AnswerTo(ans, arg) ==
    IF \E i \in 1..Len(ans.cases) : ans.cases[i].arg = arg
    THEN ans.cases[CHOOSE i \in 1..Len(ans.cases) :
                      /\ ans.cases[i].arg = arg
                      /\ \A k \in 1..(i - 1) : ans.cases[k].arg # arg].res
    ELSE ans.rest
Call(f, arg, log) == Step(AnswerTo(AnswerAt(f, log), arg), Append(log, f.id))

\* The hints of ToPrimitive, as the texts a Symbol.toPrimitive method gets.
HintNumber == Str(<<"n", "u", "m", "b", "e", "r">>)
HintString == Str(<<"s", "t", "r", "i", "n", "g">>)
HintDefault == Str(<<"d", "e", "f", "a", "u", "l", "t">>)

(***************************************************************************)
(* Text helpers.                                                           *)
(***************************************************************************)
DigitChars == <<"0", "1", "2", "3", "4", "5", "6", "7", "8", "9">>
DigitSet == {DigitChars[i] : i \in 1..10}
DigitVal(c) == CHOOSE d \in 0..9 : DigitChars[d + 1] = c
HexChars == <<"0", "1", "2", "3", "4", "5", "6", "7", "8", "9",
              "a", "b", "c", "d", "e", "f">>

\* A text is a sequence of UTF-16 code units.  A code unit from the space to
\* the tilde is that character, the tab, line feed, form feed and carriage
\* return are "\t", "\n", "\f" and "\r", and every other code unit (and the
\* grave accent, which no TLA+ string holds) is named by its \uXXXX escape
\* (lower case).
CodeName(n) ==
    "\\u" \o HexChars[(n \div 4096) + 1] \o HexChars[((n \div 256) % 16) + 1]
          \o HexChars[((n \div 16) % 16) + 1] \o HexChars[(n % 16) + 1]

\* StrWhiteSpaceChar, which parseInt, parseFloat, Number and BigInt skip:
\* tab, line feed, vertical tab, form feed, carriage return, space,
\* no-break space, the Unicode space separators, the line and paragraph
\* separators and the byte order mark.
WhiteSpace ==
    {" ", "\t", "\n", "\f", "\r"}
    \cup {CodeName(n) : n \in {11, 160, 5760, 8232, 8233, 8239, 8287, 12288, 65279}}
    \cup {CodeName(n) : n \in 8192..8202}

Chars_true == <<"t", "r", "u", "e">>
Chars_false == <<"f", "a", "l", "s", "e">>
Chars_null == <<"n", "u", "l", "l">>
Chars_undefined == <<"u", "n", "d", "e", "f", "i", "n", "e", "d">>
Chars_NaN == <<"N", "a", "N">>
Chars_Infinity == <<"I", "n", "f", "i", "n", "i", "t", "y">>
Chars_toString == <<"t", "o", "S", "t", "r", "i", "n", "g">>
Chars_valueOf == <<"v", "a", "l", "u", "e", "O", "f">>
Chars_toJSON == <<"t", "o", "J", "S", "O", "N">>
Chars_objectObject ==
    <<"[", "o", "b", "j", "e", "c", "t", " ", "O", "b", "j", "e", "c", "t", "]">>

RECURSIVE Flat(_)
\* The text as one string (for error messages).
Flat(s) ==
    IF s = <<>> THEN ""
    ELSE IF Len(s) = 1 THEN s[1]
    ELSE Flat(SubSeq(s, 1, Len(s) \div 2)) \o Flat(SubSeq(s, Len(s) \div 2 + 1, Len(s)))

RECURSIVE Concat(_, _, _)
\* The texts ts[lo], ..., ts[hi] one after the other.
Concat(ts, lo, hi) ==
    IF hi < lo THEN <<>>
    ELSE IF lo = hi THEN ts[lo]
    ELSE Concat(ts, lo, (lo + hi) \div 2) \o Concat(ts, (lo + hi) \div 2 + 1, hi)

RECURSIVE NatToChars(_)
NatToChars(n) ==
    IF n < 10 THEN <<DigitChars[n + 1]>>
    ELSE NatToChars(n \div 10) \o <<DigitChars[(n % 10) + 1]>>

Zeros(n) == [i \in 1..n |-> "0"]

Abs(i) == IF i < 0 THEN -i ELSE i

(***************************************************************************)
(* Doubles.  Arithmetic on naturals of any size (a natural is the sequence *)
(* of its decimal digits, most significant first, <<>> for 0), the         *)
(* rounding of a ratio of naturals to the nearest double, ties to even,    *)
(* and the shortest decimal that names a double.  Long operands are        *)
(* handled by halves, so that no evaluation nests deeply.                  *)
(***************************************************************************)
Max(i, j) == IF i < j THEN j ELSE i

RECURSIVE NatDigits(_)
NatDigits(n) == IF n = 0 THEN <<>> ELSE NatDigits(n \div 10) \o <<n % 10>>

RECURSIVE DigitsNat(_)
DigitsNat(d) ==
    IF d = <<>> THEN 0 ELSE 10 * DigitsNat(SubSeq(d, 1, Len(d) - 1)) + d[Len(d)]

DropLeadingZeros(d) ==
    SubSeq(d, CHOOSE j \in 1..(Len(d) + 1) :
                  /\ j = Len(d) + 1 \/ d[j] # 0
                  /\ \A k \in 1..(j - 1) : d[k] = 0,
           Len(d))

DropTrailingZeros(d) ==
    SubSeq(d, 1, CHOOSE j \in 0..Len(d) :
                     /\ j = 0 \/ d[j] # 0
                     /\ \A k \in (j + 1)..Len(d) : d[k] = 0)

\* d * 10^n
Shift(d, n) == IF d = <<>> THEN <<>> ELSE d \o [i \in 1..n |-> 0]

\* d with zeros in front, n digits in all.
Pad(d, n) == IF n > Len(d) THEN [i \in 1..(n - Len(d)) |-> 0] \o d ELSE d

RECURSIVE CompareRange(_, _, _, _)
\* The sign of p[lo..hi] - q[lo..hi].
CompareRange(p, q, lo, hi) ==
    IF lo = hi THEN (IF p[lo] < q[lo] THEN -1 ELSE IF p[lo] > q[lo] THEN 1 ELSE 0)
    ELSE IF SubSeq(p, lo, (lo + hi) \div 2) = SubSeq(q, lo, (lo + hi) \div 2)
    THEN CompareRange(p, q, (lo + hi) \div 2 + 1, hi)
    ELSE CompareRange(p, q, lo, (lo + hi) \div 2)

BigLess(p, q) ==
    \/ Len(p) < Len(q)
    \/ Len(p) = Len(q) /\ p # q /\ CompareRange(p, q, 1, Len(p)) < 0

AddJoin(high, low) == [c |-> high.c, ds |-> high.ds \o low.ds]

RECURSIVE AddRange(_, _, _, _, _)
RECURSIVE AddHigh(_, _, _, _, _)
\* [c |-> the carry out, ds |-> the digits] of p[lo..hi] + q[lo..hi] + c, and
\* of p[lo..hi] - q[lo..hi] - c when minus.
AddRange(p, q, lo, hi, c) ==
    IF lo = hi
    THEN [c |-> (p[lo] + q[lo] + c) \div 10, ds |-> <<(p[lo] + q[lo] + c) % 10>>]
    ELSE AddHigh(p, q, lo, (lo + hi) \div 2,
                 AddRange(p, q, (lo + hi) \div 2 + 1, hi, c))

AddHigh(p, q, lo, mid, low) ==
    IF low.c = 0 THEN AddJoin(AddRange(p, q, lo, mid, 0), low)
    ELSE AddJoin(AddRange(p, q, lo, mid, 1), low)

AddCarry(r) == IF r.c = 0 THEN r.ds ELSE <<r.c>> \o r.ds

BigAdd(p, q) ==
    IF p = <<>> THEN q
    ELSE IF q = <<>> THEN p
    ELSE AddCarry(AddRange(Pad(p, Len(q)), Pad(q, Len(p)), 1, Max(Len(p), Len(q)), 0))

RECURSIVE SubRange(_, _, _, _, _)
RECURSIVE SubHigh(_, _, _, _, _)
SubRange(p, q, lo, hi, c) ==
    IF lo = hi
    THEN [c |-> IF p[lo] - q[lo] - c < 0 THEN 1 ELSE 0,
          ds |-> <<(p[lo] - q[lo] - c + 10) % 10>>]
    ELSE SubHigh(p, q, lo, (lo + hi) \div 2,
                 SubRange(p, q, (lo + hi) \div 2 + 1, hi, c))

SubHigh(p, q, lo, mid, low) ==
    IF low.c = 0 THEN AddJoin(SubRange(p, q, lo, mid, 0), low)
    ELSE AddJoin(SubRange(p, q, lo, mid, 1), low)

\* p - q, for p >= q
BigSub(p, q) ==
    IF q = <<>> THEN p
    ELSE DropLeadingZeros(SubRange(p, Pad(q, Len(p)), 1, Len(p), 0).ds)

\* 2 * p: a digit from 5 on carries into the next place.
BigDouble(p) ==
    (IF p # <<>> /\ p[1] >= 5 THEN <<1>> ELSE <<>>)
    \o [i \in 1..Len(p) |->
            (2 * p[i] + (IF i < Len(p) /\ p[i + 1] >= 5 THEN 1 ELSE 0)) % 10]

RECURSIVE BigTimesPow2(_, _)
\* p * 2^n
BigTimesPow2(p, n) ==
    IF n = 0 \/ p = <<>> THEN p
    ELSE IF n = 1 THEN BigDouble(p)
    ELSE BigTimesPow2(BigTimesPow2(p, n \div 2), n - n \div 2)

IsOdd(p) == p # <<>> /\ p[Len(p)] % 2 = 1

\* binary64: a finite double is m * 2^e with m < 2^53 and MinExp <= e <=
\* MaxExp; below 2^52 * 2^MinExp the doubles are subnormal (e = MinExp).
Two52 == <<4, 5, 0, 3, 5, 9, 9, 6, 2, 7, 3, 7, 0, 4, 9, 6>>
Two53 == <<9, 0, 0, 7, 1, 9, 9, 2, 5, 4, 7, 4, 0, 9, 9, 2>>
MantissaBits == 53
MinExp == -1074
MaxExp == 971
\* The most digits the shortest name of a double has.
MaxDigits == 17
\* Decimals of at most ExactDigits digits whose leading digit has an exponent
\* within -SafeExp..SafeExp are each the shortest name of a double of their
\* own; a decimal from 10^OverflowExp on is beyond the largest double, one
\* below 10^UnderflowExp is nearer to 0 than to the smallest double.
ExactDigits == 15
SafeExp == 290
OverflowExp == 309
UnderflowExp == -324
\* 1000 * log2(10), rounded up.
MilliBitsPerDigit == 3322

RECURSIVE ScaleUp(_, _, _)
\* n / d >= 1 brought into [1, 2) by halving: [n, d, k] with (n / d) * 2^k
\* the ratio given at k = 0.
ScaleUp(n, d, k) ==
    IF BigLess(n, BigDouble(d)) THEN [n |-> n, d |-> d, k |-> k]
    ELSE ScaleUp(n, BigDouble(d), k + 1)

\* n / d > 0 brought into [1, 2) by a power of two, from a power k0 that is
\* not above the right one.
ScaledFrom(n, d, k0) ==
    IF k0 >= 0 THEN ScaleUp(n, BigTimesPow2(d, k0), k0)
    ELSE ScaleUp(BigTimesPow2(n, -k0), d, k0)

Scaled(n, d) ==
    ScaledFrom(n, d, ((Len(n) - Len(d) - 1) * MilliBitsPerDigit) \div 1000 - 1)

QuotientBit(r2, d, m2) ==
    IF BigLess(r2, d) THEN [m |-> m2, r |-> r2]
    ELSE [m |-> BigAdd(m2, <<1>>), r |-> BigSub(r2, d)]

RECURSIVE Quotient(_, _, _, _)
RECURSIVE QuotientRest(_, _, _)
\* The next bits binary digits of r / d (r < d), appended to m, and what is
\* left of r.
Quotient(r, d, m, bits) ==
    IF bits = 0 THEN [m |-> m, r |-> r]
    ELSE IF bits = 1 THEN QuotientBit(BigDouble(r), d, BigDouble(m))
    ELSE QuotientRest(Quotient(r, d, m, bits \div 2), d, bits - bits \div 2)

\* Nothing left of r: the bits that remain are zeros.
QuotientRest(h, d, bits) ==
    IF h.r = <<>> THEN [m |-> BigTimesPow2(h.m, bits), r |-> <<>>]
    ELSE Quotient(h.r, d, h.m, bits)

Carried(m, e) == IF m = Two53 THEN [m |-> Two52, e |-> e + 1] ELSE [m |-> m, e |-> e]

\* m and the remainder r2 / den of its last place: up when over a half, or
\* a half and m odd.
RoundBits(m, r2, den, e) ==
    IF BigLess(den, r2) \/ (r2 = den /\ IsOdd(m))
    THEN Carried(BigAdd(m, <<1>>), e)
    ELSE Carried(m, e)

RoundQuotient(q, den, e) == RoundBits(q.m, BigDouble(q.r), den, e)

\* The bits a double of binary exponent k holds: fewer when subnormal.
BitsAt(k) == IF k < MinExp + MantissaBits - 1 THEN k - MinExp + 1 ELSE MantissaBits

RoundScaled(s) ==
    IF BitsAt(s.k) < 0 THEN [m |-> <<>>, e |-> MinExp]
    ELSE IF BitsAt(s.k) = 0 THEN RoundBits(<<>>, s.n, s.d, MinExp)
    ELSE RoundQuotient(Quotient(BigSub(s.n, s.d), s.d, <<1>>, BitsAt(s.k) - 1),
                       s.d, s.k - BitsAt(s.k) + 1)

\* roundTiesToEven of n / d > 0: [m, e] for the double m * 2^e; m = <<>> when
\* it rounds to zero, e > MaxExp when it is beyond the largest double.
ToDouble(n, d) == RoundScaled(Scaled(n, d))

DigitBit(q, s, w) ==
    IF BigLess(q.r, s) THEN q ELSE [d |-> q.d + w, r |-> BigSub(q.r, s)]

\* [d |-> r \div s, r |-> r % s], for r < 10 * s
DigitOf(r, s) ==
    DigitBit(DigitBit(DigitBit(DigitBit([d |-> 0, r |-> r],
        BigTimesPow2(s, 3), 8), BigTimesPow2(s, 2), 4), BigDouble(s), 2), s, 1)

\* One digit of the shortest decimal within the rounding interval of the
\* double r / s, whose half gaps to its neighbours are mp / s above and
\* mm / s below; the interval holds its ends when the mantissa is even.
\* The digit that ends the decimal when both q.d and q.d + 1 are within the
\* interval: the nearer to the double, the even one when both are as near.
NearerDigit(q, s) ==
    IF BigLess(BigDouble(q.r), s) THEN q.d
    ELSE IF BigDouble(q.r) = s /\ q.d % 2 = 0 THEN q.d
    ELSE q.d + 1

DigitStep(g, q, mp, mm, low, high, s) ==
    [r |-> q.r, mp |-> mp, mm |-> mm, done |-> low \/ high,
     ds |-> g.ds \o <<IF low /\ high THEN NearerDigit(q, s)
                      ELSE IF high THEN q.d + 1
                      ELSE q.d>>]

DigitBounds(g, q, mp, mm, s, even) ==
    DigitStep(g, q, mp, mm,
              IF even THEN ~BigLess(mm, q.r) ELSE BigLess(q.r, mm),
              IF even THEN ~BigLess(BigAdd(q.r, mp), s) ELSE BigLess(s, BigAdd(q.r, mp)),
              s)

RECURSIVE Generate(_, _, _, _)
RECURSIVE GenerateRest(_, _, _, _)
\* Up to n more digits after those of g.
Generate(g, s, even, n) ==
    IF g.done THEN g
    ELSE IF n = 1
    THEN DigitBounds(g, DigitOf(Shift(g.r, 1), s), Shift(g.mp, 1), Shift(g.mm, 1), s, even)
    ELSE GenerateRest(Generate(g, s, even, n \div 2), s, even, n - n \div 2)

GenerateRest(g, s, even, n) == Generate(g, s, even, n)

Digits(r, s, mp, mm, k, even) ==
    [ds |-> Generate([r |-> r, mp |-> mp, mm |-> mm, done |-> FALSE, ds |-> <<>>],
                     s, even, MaxDigits).ds,
     k |-> k]

RECURSIVE FixUp(_, _, _, _, _, _)
\* The least power of ten k that puts the upper end of the interval below
\* 10^k, then the digits: [ds, k] for 0.ds * 10^k.
FixUp(r, s, mp, mm, k, even) ==
    IF (IF even THEN ~BigLess(BigAdd(r, mp), s) ELSE BigLess(s, BigAdd(r, mp)))
    THEN FixUp(r, Shift(s, 1), mp, mm, k + 1, even)
    ELSE Digits(r, s, mp, mm, k, even)

ScaleDecimalFrom(r, s, mp, mm, k0, even) ==
    IF k0 >= 0 THEN FixUp(r, Shift(s, k0), mp, mm, k0, even)
    ELSE FixUp(Shift(r, -k0), s, Shift(mp, -k0), Shift(mm, -k0), k0, even)

ScaleDecimal(r, s, mp, mm, even) ==
    ScaleDecimalFrom(r, s, mp, mm, Len(BigAdd(r, mp)) - Len(s) - 1, even)

\* The lower neighbour of a power of two is half as far as the upper one.
Narrow(m, e) == m = Two52 /\ e > MinExp

\* The shortest decimal that rounds to the double m * 2^e (m > 0), the
\* nearest to it when several are as short.
Shortest(m, e) ==
    IF e >= 0
    THEN ScaleDecimal(BigTimesPow2(m, e + (IF Narrow(m, e) THEN 2 ELSE 1)),
                      IF Narrow(m, e) THEN <<4>> ELSE <<2>>,
                      BigTimesPow2(<<1>>, e + (IF Narrow(m, e) THEN 1 ELSE 0)),
                      BigTimesPow2(<<1>>, e), ~IsOdd(m))
    ELSE ScaleDecimal(BigTimesPow2(m, IF Narrow(m, e) THEN 2 ELSE 1),
                      BigTimesPow2(<<1>>, (IF Narrow(m, e) THEN 2 ELSE 1) - e),
                      IF Narrow(m, e) THEN <<2>> ELSE <<1>>, <<1>>, ~IsOdd(m))

FromShortest(neg, g) == Finite(neg, g.ds, g.k - Len(g.ds))

\* The Number that is a double [m, e].
FromDouble(neg, dbl) ==
    IF dbl.m = <<>> THEN (IF neg THEN NegZero ELSE Zero)
    ELSE IF dbl.e > MaxExp THEN (IF neg THEN NegInf ELSE PosInf)
    ELSE FromShortest(neg, Shortest(dbl.m, dbl.e))

\* The double of the decimal ds * 10^x > 0.
DoubleOf(ds, x) == ToDouble(Shift(ds, Max(x, 0)), Shift(<<1>>, Max(-x, 0)))

\* Every double, and every midpoint of two neighbouring doubles, is a decimal
\* of fewer than MaxSignificant digits.  A longer decimal lies strictly
\* between two decimals of MaxSignificant digits, as does its first
\* MaxSignificant digits followed by a 1, so both round to the same double.
MaxSignificant == 800
Significant(ds) ==
    IF Len(ds) > MaxSignificant THEN SubSeq(ds, 1, MaxSignificant) \o <<1>> ELSE ds

\* The Number nearest to the decimal 0.ds * 10^top (ds without a zero at
\* either end), negated if neg.
RoundedTop(neg, ds, top) ==
    IF ds = <<>> THEN (IF neg THEN NegZero ELSE Zero)
    ELSE IF Len(ds) <= ExactDigits /\ -SafeExp < top /\ top <= SafeExp
    THEN Finite(neg, ds, top - Len(ds))
    ELSE IF top > OverflowExp THEN (IF neg THEN NegInf ELSE PosInf)
    ELSE IF top <= UnderflowExp THEN (IF neg THEN NegZero ELSE Zero)
    ELSE FromDouble(neg, DoubleOf(Significant(ds), top - Len(Significant(ds))))

RoundedLead(neg, lead, x) == RoundedTop(neg, DropTrailingZeros(lead), x + Len(lead))

\* The Number nearest to the decimal ds * 10^x, negated if neg.
Rounded(neg, ds, x) == RoundedLead(neg, DropLeadingZeros(ds), x)

\* The Number nearest to the decimal m * 10^x, and the Number of the integer i.
Norm(m, x) == IF m = 0 THEN Zero ELSE Rounded(m < 0, NatDigits(Abs(m)), x)
Num(i) == Norm(i, 0)

\* The big integer i.
BigI(i) == BigOf(i < 0, NatDigits(Abs(i)))

\* The sum of two signed naturals [neg, ds]; zero has no sign.
SignedAdd(pneg, p, qneg, q) ==
    IF pneg = qneg THEN [neg |-> pneg /\ (p # <<>> \/ q # <<>>), ds |-> BigAdd(p, q)]
    ELSE IF BigLess(p, q) THEN [neg |-> qneg, ds |-> BigSub(q, p)]
    ELSE [neg |-> pneg /\ p # q, ds |-> BigSub(p, q)]

\* BigInt::add.
BigIntAdd(x, y) ==
    LET sum == SignedAdd(x.neg, x.ds, y.neg, y.ds) IN BigOf(sum.neg, sum.ds)

\* The integer a double of integral value is: exactly m * 2^e when e >= 0,
\* and the digits of its shortest decimal when every digit of the integer is
\* among them.
IntegerOfDouble(n, d) == IF d.e >= 0 THEN BigTimesPow2(d.m, d.e) ELSE Shift(n.ds, n.x)
IntegerValue(n) ==
    IF Len(n.ds) + n.x <= ExactDigits THEN Shift(n.ds, n.x)
    ELSE IntegerOfDouble(n, DoubleOf(n.ds, n.x))

DigitsToChars(ds) == [i \in 1..Len(ds) |-> DigitChars[ds[i] + 1]]

\* Number::toString (radix 10) of a positive finite number m * 10^x, m given
\* by its digit characters.
PositiveToString(m, x) ==
    LET ds == m
        k  == Len(ds)
        n  == k + x
        ex == n - 1
        exChars == <<"e", IF ex < 0 THEN "-" ELSE "+">> \o NatToChars(Abs(ex))
    IN  IF k <= n /\ n <= 21 THEN ds \o Zeros(n - k)
        ELSE IF 0 < n /\ n <= 21
             THEN SubSeq(ds, 1, n) \o <<".">> \o SubSeq(ds, n + 1, k)
        ELSE IF -6 < n /\ n <= 0 THEN <<"0", ".">> \o Zeros(-n) \o ds
        ELSE IF k = 1 THEN ds \o exChars
        ELSE <<ds[1], ".">> \o SubSeq(ds, 2, k) \o exChars

NumberToString(v) ==
    CASE v.kind = "NaN" -> Chars_NaN
      [] v.kind = "Infinity" ->
            IF v.neg THEN <<"-">> \o Chars_Infinity ELSE Chars_Infinity
      [] v.kind = "-0" -> <<"0">>
      [] OTHER ->
            IF v.ds = <<>> THEN <<"0">>
            ELSE IF v.neg THEN <<"-">> \o PositiveToString(DigitsToChars(v.ds), v.x)
            ELSE PositiveToString(DigitsToChars(v.ds), v.x)

\* An own member of a plain object, under any key and under a text key.
HasOwnKey(o, key) == \E i \in 1..Len(o.ps) : o.ps[i].k = key
OwnKey(o, key) == o.ps[CHOOSE i \in 1..Len(o.ps) : o.ps[i].k = key].v
HasOwn(o, name) == HasOwnKey(o, Str(name))
Own(o, name) == OwnKey(o, Str(name))
IsCallable(o, name) == HasOwn(o, name) /\ Own(o, name).t = "function"

\* Object.prototype.toString of a plain object: "[object Object]", with an
\* own Symbol.toStringTag member that is text in place of "Object".
ObjectPrototypeToString(o) ==
    IF HasOwnKey(o, SymbolToStringTag) /\ OwnKey(o, SymbolToStringTag).t = "string"
    THEN <<"[", "o", "b", "j", "e", "c", "t", " ">>
         \o OwnKey(o, SymbolToStringTag).s \o <<"]">>
    ELSE Chars_objectObject

\* What a conversion method gives: what the call returns when that is a
\* primitive, what it throws, NoPrimitive when it returns an object.
NoPrimitive == [kind |-> "none"]
CallResult(s) ==
    IF Thrown(s.o) THEN s
    ELSE IF IsObject(s.o.v) THEN Step(NoPrimitive, s.log)
    ELSE s

\* One step of OrdinaryToPrimitive on a plain object: the method under
\* name is called, without an argument, and its result used unless it is
\* an object.  An own member that is a function is called, an own member
\* that is not a function hides the inherited method,
\* Object.prototype.toString is inherited and gives text,
\* Object.prototype.valueOf the object itself.
MethodResult(o, name, log) ==
    IF IsCallable(o, name) THEN CallResult(Call(Own(o, name), Undefined, log))
    ELSE IF HasOwn(o, name) THEN Step(NoPrimitive, log)
    ELSE IF name = Chars_toString THEN Step(Return(Str(ObjectPrototypeToString(o))), log)
    ELSE Step(NoPrimitive, log)

\* OrdinaryToPrimitive: toString then valueOf for the hint "string",
\* valueOf then toString otherwise, the second only when the first gives
\* no primitive; a TypeError when neither gives one.
OrdinaryLast(second) ==
    IF second.o.kind # "none" THEN second
    ELSE Step(NativeThrow("TypeError"), second.log)
OrdinarySecond(first, o, name) ==
    IF first.o.kind # "none" THEN first
    ELSE OrdinaryLast(MethodResult(o, name, first.log))
OrdinaryToPrimitive(o, hint, log) ==
    IF hint = HintString
    THEN OrdinarySecond(MethodResult(o, Chars_toString, log), o, Chars_valueOf)
    ELSE OrdinarySecond(MethodResult(o, Chars_valueOf, log), o, Chars_toString)

\* The Symbol.toPrimitive member of a plain object (GetMethod followed by
\* the call with the hint): none when it is absent, undefined or null; a
\* TypeError when it is not a function or returns an object; else what the
\* call returns or throws.
ExoticResult(s) ==
    IF Thrown(s.o) \/ ~IsObject(s.o.v) THEN s
    ELSE Step(NativeThrow("TypeError"), s.log)
ExoticToPrimitive(o, hint, log) ==
    IF ~HasOwnKey(o, SymbolToPrimitive) THEN Step(NoPrimitive, log)
    ELSE IF OwnKey(o, SymbolToPrimitive).t \in {"undefined", "null"}
    THEN Step(NoPrimitive, log)
    ELSE IF OwnKey(o, SymbolToPrimitive).t # "function"
    THEN Step(NativeThrow("TypeError"), log)
    ELSE ExoticResult(Call(OwnKey(o, SymbolToPrimitive), hint, log))

\* ToPrimitive of a plain object under a hint: its Symbol.toPrimitive
\* member if it has one, else OrdinaryToPrimitive.
OrdinaryUnless(exotic, o, hint) ==
    IF exotic.o.kind # "none" THEN exotic
    ELSE OrdinaryToPrimitive(o, hint, exotic.log)
ObjectToPrimitive(o, hint, log) ==
    OrdinaryUnless(ExoticToPrimitive(o, hint, log), o, hint)

\* ToString of a primitive that is not a symbol.
PrimitiveChars(v) ==
    CASE v.t = "string" -> v.s
      [] v.t = "number" -> NumberToString(v)
      [] v.t = "boolean" -> IF v.b THEN Chars_true ELSE Chars_false
      [] v.t = "null" -> Chars_null
      [] v.t = "undefined" -> Chars_undefined
      [] v.t = "bigint" -> IF v.ds = <<>> THEN <<"0">>
                           ELSE (IF v.neg THEN <<"-">> ELSE <<>>) \o DigitsToChars(v.ds)
      [] OTHER -> <<>>

\* ToString of a primitive: a TypeError on a symbol.
PrimitiveToString(v) ==
    IF v.t = "symbol" THEN NativeThrow("TypeError") ELSE Return(Str(PrimitiveChars(v)))

\* ToString of what ToPrimitive gave.
PrimitiveText(prim) ==
    IF Thrown(prim.o) THEN prim ELSE Step(PrimitiveToString(prim.o.v), prim.log)

RECURSIVE ToStringOf(_, _)
RECURSIVE Join(_, _, _, _)
\* ToString, the implicit conversion to text: an array is its elements
\* joined, a function its source text, a plain object the text of its
\* primitive under the hint "string".
ToStringOf(v, log) ==
    CASE v.t = "array" -> Join(v.es, 1, Len(v.es), log)
      [] v.t = "function" -> Step(Return(Str(v.src)), log)
      [] v.t = "object" -> PrimitiveText(ObjectToPrimitive(v, HintString, log))
      [] OTHER -> Step(PrimitiveToString(v), log)

\* Array.prototype.join(",") of the elements es[lo], ..., es[hi]: their
\* ToString from the first on, null and undefined elements being empty.
JoinBoth(low, high) ==
    IF Thrown(high.o) THEN high
    ELSE Step(Return(Str(low.o.v.s \o <<",">> \o high.o.v.s)), high.log)
JoinHigh(low, es, lo, hi) ==
    IF Thrown(low.o) THEN low ELSE JoinBoth(low, Join(es, lo, hi, low.log))
Join(es, lo, hi, log) ==
    IF hi < lo THEN Step(Return(Str(<<>>)), log)
    ELSE IF lo < hi
    THEN JoinHigh(Join(es, lo, (lo + hi) \div 2, log), es, (lo + hi) \div 2 + 1, hi)
    ELSE IF es[lo].t \in {"null", "undefined"} THEN Step(Return(Str(<<>>)), log)
    ELSE ToStringOf(es[lo], log)

\* Whether ToString throws, and the text it gives where it does not, when
\* no call came before.
ToStringThrows(v) == Thrown(ToStringOf(v, <<>>).o)
ToStringChars(v) ==
    IF Thrown(ToStringOf(v, <<>>).o) THEN <<>> ELSE ToStringOf(v, <<>>).o.v.s
JoinChars(es) == ToStringChars(Arr(es))

\* SymbolDescriptiveString.
SymbolChars(v) == <<"S", "y", "m", "b", "o", "l", "(">> \o v.d \o <<")">>

\* String(value): a symbol is rendered, every other value goes through ToString.
StringOf(v, log) ==
    IF v.t = "symbol" THEN Step(Return(Str(SymbolChars(v))), log) ELSE ToStringOf(v, log)

\* `${value}`: ToString.
TemplateOf(v, log) == ToStringOf(v, log)

\* ToPrimitive under a hint: an array is its joined text, a function its
\* source text (under every hint: their inherited valueOf gives the object
\* itself), a plain object goes through ObjectToPrimitive, a primitive is
\* itself.
ToPrimitive(v, hint, log) ==
    CASE v.t = "array" -> Join(v.es, 1, Len(v.es), log)
      [] v.t = "function" -> Step(Return(Str(v.src)), log)
      [] v.t = "object" -> ObjectToPrimitive(v, hint, log)
      [] OTHER -> Step(Return(v), log)

(***************************************************************************)
(* Number arithmetic: Number::add, the sum of two doubles rounded to the   *)
(* nearest double.                                                         *)
(***************************************************************************)
Min(i, j) == IF i < j THEN i ELSE j

\* The double nearest to sum * 2^e.
RoundSum(neg, sum, e) ==
    IF e >= 0 THEN FromDouble(neg, ToDouble(BigTimesPow2(sum, e), <<1>>))
    ELSE FromDouble(neg, ToDouble(sum, BigTimesPow2(<<1>>, -e)))

\* The sum of p * 2^e (negative if pneg) and q * 2^e (negative if qneg).
SignedSum(pneg, p, qneg, q, e) ==
    IF pneg = qneg THEN RoundSum(pneg, BigAdd(p, q), e)
    ELSE IF p = q THEN Zero
    ELSE IF BigLess(p, q) THEN RoundSum(qneg, BigSub(q, p), e)
    ELSE RoundSum(pneg, BigSub(p, q), e)

\* The exact sum of the doubles p and q, rounded to a double.
DoubleAdd(pneg, p, qneg, q) ==
    SignedSum(pneg, BigTimesPow2(p.m, p.e - Min(p.e, q.e)),
              qneg, BigTimesPow2(q.m, q.e - Min(p.e, q.e)), Min(p.e, q.e))

\* The sum of two finite numbers.
FiniteAdd(p, q) ==
    IF p.ds = <<>> THEN q
    ELSE IF q.ds = <<>> THEN p
    ELSE DoubleAdd(p.neg, DoubleOf(p.ds, p.x), q.neg, DoubleOf(q.ds, q.x))

NumAdd(p, q) ==
    CASE p.kind = "NaN" \/ q.kind = "NaN" -> NaN
      [] p.kind = "Infinity" /\ q.kind = "Infinity" ->
            IF p.neg = q.neg THEN p ELSE NaN
      [] p.kind = "Infinity" -> p
      [] q.kind = "Infinity" -> q
      [] p.kind = "-0" /\ q.kind = "-0" -> NegZero
      [] p.kind = "-0" -> q
      [] q.kind = "-0" -> p
      [] OTHER -> FiniteAdd(p, q)

\* ToNumber of a primitive that is neither text, symbol nor bigint.
PrimToNumber(v) ==
    CASE v.t = "number" -> v
      [] v.t = "boolean" -> IF v.b THEN Num(1) ELSE Num(0)
      [] v.t = "null" -> Num(0)
      [] OTHER -> NaN

\* The + operator on two primitives: with a text operand both are
\* concatenated as text, otherwise both are numeric: two bigints add, a
\* bigint with anything else and a symbol anywhere throw TypeError.
PrimAdd(p, q) ==
    IF p.t = "string" \/ q.t = "string"
    THEN IF Thrown(PrimitiveToString(p)) THEN PrimitiveToString(p)
         ELSE IF Thrown(PrimitiveToString(q)) THEN PrimitiveToString(q)
         ELSE Return(Str(PrimitiveChars(p) \o PrimitiveChars(q)))
    ELSE IF p.t = "symbol" \/ q.t = "symbol" THEN NativeThrow("TypeError")
    ELSE IF p.t = "bigint" /\ q.t = "bigint" THEN Return(BigIntAdd(p, q))
    ELSE IF p.t = "bigint" \/ q.t = "bigint" THEN NativeThrow("TypeError")
    ELSE Return(NumAdd(PrimToNumber(p), PrimToNumber(q)))

\* The + operator: ToPrimitive of the left operand, then of the right one,
\* both without a preferred type, then the sum of the two primitives.
AddRight(lp, rp) ==
    IF Thrown(rp.o) THEN rp ELSE Step(PrimAdd(lp.o.v, rp.o.v), rp.log)
AddLeft(lp, q) ==
    IF Thrown(lp.o) THEN lp ELSE AddRight(lp, ToPrimitive(q, HintDefault, lp.log))
JsAdd(p, q, log) == AddLeft(ToPrimitive(p, HintDefault, log), q)

(***************************************************************************)
(* addValues(a, b)                                                         *)
(***************************************************************************)
IsPlainObject(v) == typeof(v) = "object" /\ v.t # "null" /\ ~IsArray(v)

AddTypeMessage(p, q) ==
    "Cannot add values of type \"" \o typeof(p) \o "\" and \"" \o typeof(q) \o "\"."

\* Mutants of addValues: the operands concatenated in the wrong order; the
\* undefined check made before the object check; a loose == undefined.
addValues_swapped(p, q) ==
    IF IsArray(p) /\ IsArray(q) THEN Return(Arr(q.es \o p.es))
    ELSE IF IsPlainObject(p) \/ IsPlainObject(q) THEN Throw(AddTypeMessage(p, q))
    ELSE IF p.t = "undefined" \/ q.t = "undefined"
         THEN Throw("Cannot add undefined values.")
    ELSE JsAdd(p, q, <<>>).o

addValues_firstOnly(p, q) ==
    IF IsArray(p) /\ IsArray(q) THEN Return(Arr(p.es \o q.es))
    ELSE IF IsPlainObject(p) \/ IsPlainObject(q) THEN Throw(AddTypeMessage(p, q))
    ELSE IF p.t = "undefined" THEN Throw("Cannot add undefined values.")
    ELSE JsAdd(p, q, <<>>).o

addValues_undefinedFirst(p, q) ==
    IF IsArray(p) /\ IsArray(q) THEN Return(Arr(p.es \o q.es))
    ELSE IF p.t = "undefined" \/ q.t = "undefined"
         THEN Throw("Cannot add undefined values.")
    ELSE IF IsPlainObject(p) \/ IsPlainObject(q) THEN Throw(AddTypeMessage(p, q))
    ELSE JsAdd(p, q, <<>>).o

addValues_looseUndefined(p, q) ==
    IF IsArray(p) /\ IsArray(q) THEN Return(Arr(p.es \o q.es))
    ELSE IF IsPlainObject(p) \/ IsPlainObject(q) THEN Throw(AddTypeMessage(p, q))
    ELSE IF p.t \in {"undefined", "null"} \/ q.t \in {"undefined", "null"}
         THEN Throw("Cannot add undefined values.")
    ELSE JsAdd(p, q, <<>>).o

addValues(p, q) ==
    IF IsArray(p) /\ IsArray(q) THEN Return(Arr(p.es \o q.es))
    ELSE IF IsPlainObject(p) \/ IsPlainObject(q) THEN Throw(AddTypeMessage(p, q))
    ELSE IF p.t = "undefined" \/ q.t = "undefined"
         THEN Throw("Cannot add undefined values.")
    ELSE JsAdd(p, q, <<>>).o

(***************************************************************************)
(* Numeric parsing: parseInt(s, 10), parseFloat(s), Number(s), BigInt(s).  *)
(***************************************************************************)
\* The first index from i on whose character is not in S (Len(s) + 1 if none).
SkipWhile(s, i, S) ==
    CHOOSE j \in i..(Len(s) + 1) :
        /\ j = Len(s) + 1 \/ s[j] \notin S
        /\ \A k \in i..(j - 1) : s[k] \in S

RECURSIVE DigitsValue(_, _, _)
\* The decimal value of the digits s[i], ..., s[j - 1].
DigitsValue(s, i, j) ==
    IF j <= i THEN 0 ELSE 10 * DigitsValue(s, i, j - 1) + DigitVal(s[j - 1])

HasAt(s, i, w) == i + Len(w) - 1 <= Len(s) /\ SubSeq(s, i, i + Len(w) - 1) = w

IsSignAt(s, i) == i <= Len(s) /\ s[i] \in {"+", "-"}

\* The digits s[i], ..., s[j - 1] as a natural.
DigitsAt(s, i, j) == DropLeadingZeros([k \in 1..(j - i) |-> DigitVal(s[i + k - 1])])


\* parseInt(s, 10): leading white space is skipped, then a sign and the
\* longest run of decimal digits are read; what follows is ignored; no
\* digit gives NaN.
parseInt(s) ==
    LET i0 == SkipWhile(s, 1, WhiteSpace)
        neg == HasAt(s, i0, <<"-">>)
        i1 == IF IsSignAt(s, i0) THEN i0 + 1 ELSE i0
        i2 == SkipWhile(s, i1, DigitSet)
    IN  IF i2 = i1 THEN NaN ELSE Rounded(neg, DigitsAt(s, i1, i2), 0)

\* The decimal 0.lead * 10^(top + exponent) of a literal, with lead the
\* digits of its mantissa from the first that is not 0 and exponent the
\* signed natural after its e.  The sum is computed in full; one of more
\* than four digits is beyond every double, and counts as ExponentLimit.
ExponentLimit == 9999
ClampedExponent(sum) ==
    IF Len(sum.ds) > 4 THEN (IF sum.neg THEN -ExponentLimit ELSE ExponentLimit)
    ELSE IF sum.neg THEN -DigitsNat(sum.ds) ELSE DigitsNat(sum.ds)
ScientificExponent(expNeg, expDigits, top) ==
    ClampedExponent(SignedAdd(expNeg, expDigits, top < 0, NatDigits(Abs(top))))
DecimalLead(neg, lead, expNeg, expDigits, nFrac) ==
    RoundedTop(neg, DropTrailingZeros(lead),
               ScientificExponent(expNeg, expDigits, Len(lead) - nFrac))

\* The value of a scanned decimal literal of s: its sign is at i0 (if any),
\* its integer digits are s[i1..i2-1], its fraction digits s[i2+1..i3-1]
\* (i3 = i2 when it has no "."), its exponent digits s[i5..i6-1] after the
\* exponent mark at i3 (i6 = i5 when it has no exponent).
DecimalValue(s, i0, i1, i2, i3, i5, i6) ==
    LET nFrac == IF i3 > i2 THEN i3 - (i2 + 1) ELSE 0
        expDigits == IF i6 > i5 THEN DigitsAt(s, i5, i6) ELSE <<>>
        expNeg == i6 > i5 /\ HasAt(s, i3 + 1, <<"-">>)
        mant == [k \in 1..(i2 - i1) |-> DigitVal(s[i1 + k - 1])]
                \o [k \in 1..nFrac |-> DigitVal(s[i2 + k])]
    IN  DecimalLead(HasAt(s, i0, <<"-">>), DropLeadingZeros(mant),
                    expNeg, expDigits, nFrac)

\* Where the digits of an exponent that starts at index i would start
\* (after "e" or "E" and a sign); 0 when no exponent mark is at i.
ExponentDigitsAt(s, i) ==
    IF i <= Len(s) /\ s[i] \in {"e", "E"}
    THEN (IF IsSignAt(s, i + 1) THEN i + 2 ELSE i + 1)
    ELSE 0

\* The scan of a StrDecimalLiteral, stage by stage: the exponent's digits,
\* which count only if there is one; before that the mantissa, which needs
\* a digit before or after its "."; before that the integer digits.
DecimalExponent(s, i0, i1, i2, i3, i5) ==
    LET i6 == IF i5 = 0 THEN 0 ELSE SkipWhile(s, i5, DigitSet)
    IN  [end |-> IF i6 > i5 THEN i6 ELSE i3,
         val |-> DecimalValue(s, i0, i1, i2, i3, i5, i6)]

DecimalMantissa(s, i0, i1, i2, i3) ==
    IF (i2 - i1) + (IF i3 > i2 THEN i3 - (i2 + 1) ELSE 0) = 0
    THEN [end |-> i0, val |-> NaN]
    ELSE DecimalExponent(s, i0, i1, i2, i3, ExponentDigitsAt(s, i3))

DecimalDigits(s, i0, i1, i2) ==
    DecimalMantissa(s, i0, i1, i2,
                    IF HasAt(s, i2, <<".">>) THEN SkipWhile(s, i2 + 1, DigitSet) ELSE i2)

DecimalUnsigned(s, i0, i1) ==
    IF HasAt(s, i1, Chars_Infinity)
    THEN [end |-> i1 + Len(Chars_Infinity),
          val |-> IF HasAt(s, i0, <<"-">>) THEN NegInf ELSE PosInf]
    ELSE DecimalDigits(s, i0, i1, SkipWhile(s, i1, DigitSet))

\* The longest prefix of s from index i0 that is a StrDecimalLiteral:
\* [end |-> the index after it (i0 when there is none), val |-> its value].
DecimalPrefix(s, i0) ==
    DecimalUnsigned(s, i0, IF IsSignAt(s, i0) THEN i0 + 1 ELSE i0)

\* parseFloat(s): the value of the longest decimal literal that starts s
\* after its leading white space; NaN when there is none.
parseFloat(s) == DecimalPrefix(s, SkipWhile(s, 1, WhiteSpace)).val

\* The text without leading and trailing white space.
Trim(s) ==
    LET i == SkipWhile(s, 1, WhiteSpace)
        j == CHOOSE k \in (i - 1)..Len(s) :
                /\ k = i - 1 \/ s[k] \notin WhiteSpace
                /\ \A n \in (k + 1)..Len(s) : s[n] \in WhiteSpace
    IN  SubSeq(s, i, j)

HexUpper == <<"0", "1", "2", "3", "4", "5", "6", "7", "8", "9",
              "A", "B", "C", "D", "E", "F">>
RadixDigits(r) == {HexChars[i] : i \in 1..r} \cup {HexUpper[i] : i \in 1..r}
RadixVal(c) == CHOOSE d \in 0..15 : HexChars[d + 1] = c \/ HexUpper[d + 1] = c

RECURSIVE RadixValue(_, _, _, _)
RadixValue(s, i, j, r) ==
    IF j <= i THEN 0 ELSE r * RadixValue(s, i, j - 1, r) + RadixVal(s[j - 1])

\* The natural written by the digits s[i], ..., s[j - 1] of a radix of 2^bits.
RECURSIVE RadixNat(_, _, _, _)
RadixNat(s, i, j, bits) ==
    IF j <= i THEN <<>>
    ELSE IF j = i + 1 THEN NatDigits(RadixVal(s[i]))
    ELSE BigAdd(BigTimesPow2(RadixNat(s, i, (i + j) \div 2, bits),
                             bits * (j - (i + j) \div 2)),
                RadixNat(s, (i + j) \div 2, j, bits))
RadixBits(r) == CASE r = 16 -> 4 [] r = 8 -> 3 [] OTHER -> 1

\* The radix of a NonDecimalIntegerLiteral (0x.., 0o.., 0b..), 0 if s is none.
NonDecimalRadix(s) ==
    IF Len(s) < 3 \/ s[1] # "0" THEN 0
    ELSE LET r == CASE s[2] \in {"x", "X"} -> 16
                    [] s[2] \in {"o", "O"} -> 8
                    [] s[2] \in {"b", "B"} -> 2
                    [] OTHER -> 0
         IN  IF r # 0 /\ \A i \in 3..Len(s) : s[i] \in RadixDigits(r) THEN r ELSE 0

\* StringToNumber: the whole trimmed text must be a numeric literal; the
\* empty text is 0.
StringToNumber(s) ==
    LET u == Trim(s)
        r == NonDecimalRadix(u)
        d == DecimalPrefix(u, 1)
    IN  IF u = <<>> THEN Num(0)
        ELSE IF r # 0 THEN Rounded(FALSE, RadixNat(u, 3, Len(u) + 1, RadixBits(r)), 0)
        ELSE IF d.end = Len(u) + 1 THEN d.val
        ELSE NaN

\* StringToBigInt: the whole trimmed text must be an integer literal (signed
\* decimal digits, or 0x / 0o / 0b digits); the empty text is 0n.
\* [ok |-> FALSE] when it is not.
StringToBigInt(s) ==
    LET u == Trim(s)
        r == NonDecimalRadix(u)
        neg == HasAt(u, 1, <<"-">>)
        i1 == IF IsSignAt(u, 1) THEN 2 ELSE 1
        i2 == SkipWhile(u, i1, DigitSet)
    IN  IF u = <<>> THEN [ok |-> TRUE, v |-> BigOf(FALSE, <<>>)]
        ELSE IF r # 0
        THEN [ok |-> TRUE, v |-> BigOf(FALSE, RadixNat(u, 3, Len(u) + 1, RadixBits(r)))]
        ELSE IF i2 > i1 /\ i2 = Len(u) + 1
             THEN [ok |-> TRUE,
                   v |-> BigOf(neg /\ DigitsAt(u, i1, i2) # <<>>, DigitsAt(u, i1, i2))]
        ELSE [ok |-> FALSE, v |-> BigOf(FALSE, <<>>)]

isNaN(n) == n.kind = "NaN"

\* ToNumber of a primitive: text is read by StringToNumber, a bigint is
\* converted by Number(), a symbol throws TypeError.
PrimNumberOf(v) ==
    CASE v.t = "number" -> Return(v)
      [] v.t = "string" -> Return(StringToNumber(v.s))
      [] v.t \in {"boolean", "null", "undefined"} -> Return(PrimToNumber(v))
      [] v.t = "bigint" -> Return(Rounded(v.neg, v.ds, 0))
      [] OTHER -> NativeThrow("TypeError")

\* Number(value): ToPrimitive under the hint "number", then ToNumber of
\* the primitive.
NumberOfPrimitive(prim) ==
    IF Thrown(prim.o) THEN prim ELSE Step(PrimNumberOf(prim.o.v), prim.log)
NumberOf(v, log) == NumberOfPrimitive(ToPrimitive(v, HintNumber, log))

(***************************************************************************)
(* convertToNumber(value)                                                  *)
(***************************************************************************)
\* Mutant of ParseText: the decimal point is not looked for.
ParseText_noFloat(s) == parseInt(s)

\* The text branch's parse: parseFloat when the text holds a ".", else parseInt.
ParseText(s) ==
    IF \E i \in 1..Len(s) : s[i] = "." THEN parseFloat(s) ELSE parseInt(s)

\* Mutant of ObjectToNumber: the isNaN test is missing.
ObjectToNumber_noNaNTest(value) == NumberOf(value, <<>>).o

\* The object branch: Number(value), an error when it is NaN.
ObjectToNumber(value) ==
    LET num == NumberOf(value, <<>>).o
    IN  IF Thrown(num) THEN num
        ELSE IF ~isNaN(num.v) THEN num
        ELSE Throw("Cannot convert object to number.")

convertToNumber(value) ==
    IF typeof(value) = "number" THEN Return(value)
    ELSE IF typeof(value) = "string"
    THEN LET parsed == ParseText(value.s)
         IN  IF isNaN(parsed) THEN Throw("Cannot convert string to number.")
             ELSE Return(parsed)
    ELSE IF typeof(value) = "boolean" THEN Return(IF value.b THEN Num(1) ELSE Num(0))
    ELSE IF value.t = "null" THEN Return(Num(0))
    ELSE IF typeof(value) = "undefined"
    THEN Throw("Cannot convert undefined to number.")
    ELSE IF typeof(value) = "object" THEN ObjectToNumber(value)
    ELSE Throw("Cannot convert type \"" \o typeof(value) \o "\" to number.")

(***************************************************************************)
(* coerceToType(value, type)                                               *)
(***************************************************************************)
\* Mutant of BooleanOf: an empty array is taken for false as well.
BooleanOf_emptyArray(v) ==
    CASE v.t = "string" -> v.s # <<>>
      [] v.t = "number" -> ~(v.kind \in {"NaN", "-0"} \/ (v.kind = "finite" /\ v.ds = <<>>))
      [] v.t = "bigint" -> v.ds # <<>>
      [] v.t = "boolean" -> v.b
      [] v.t \in {"null", "undefined"} -> FALSE
      [] v.t = "array" -> v.es # <<>>
      [] OTHER -> TRUE

\* Boolean(value) (ToBoolean): false on the empty text, 0, -0, NaN, 0n,
\* null, undefined and false; true on everything else.
BooleanOf(v) ==
    CASE v.t = "string" -> v.s # <<>>
      [] v.t = "number" -> ~(v.kind \in {"NaN", "-0"} \/ (v.kind = "finite" /\ v.ds = <<>>))
      [] v.t = "bigint" -> v.ds # <<>>
      [] v.t = "boolean" -> v.b
      [] v.t \in {"null", "undefined"} -> FALSE
      [] OTHER -> TRUE

\* The digits of a number before its decimal point.
Truncated(n) ==
    IF n.x >= 0 THEN IntegerValue(n) ELSE SubSeq(n.ds, 1, Max(Len(n.ds) + n.x, 0))

\* Mutant of NumberToBigInt: a fractional number is truncated.
NumberToBigInt_truncates(n) ==
    IF n.kind = "-0" THEN Return(BigI(0))
    ELSE IF n.kind = "finite"
    THEN Return(BigOf(n.neg /\ Truncated(n) # <<>>, Truncated(n)))
    ELSE NativeThrow("RangeError")

\* NumberToBigInt: a number of integral value is the big integer of that
\* value, any other is a RangeError.
NumberToBigInt(n) ==
    IF n.kind = "-0" THEN Return(BigI(0))
    ELSE IF n.kind = "finite" /\ n.x >= 0
    THEN Return(BigOf(n.neg /\ n.ds # <<>>, IntegerValue(n)))
    ELSE NativeThrow("RangeError")

TextToBigInt(s) ==
    LET r == StringToBigInt(s)
    IN  IF r.ok THEN Return(r.v) ELSE NativeThrow("SyntaxError")

\* BigInt of a primitive: a number must be integral; text must be an
\* integer literal; a boolean is 1n or 0n; null, undefined and a symbol are
\* a TypeError.
PrimBigIntOf(p) ==
    CASE p.t = "number" -> NumberToBigInt(p)
      [] p.t = "string" -> TextToBigInt(p.s)
      [] p.t = "boolean" -> Return(BigI(IF p.b THEN 1 ELSE 0))
      [] p.t = "bigint" -> Return(p)
      [] OTHER -> NativeThrow("TypeError")

\* BigInt(value): ToPrimitive under the hint "number" turns an array, object
\* or function into a primitive, which is then read.
BigIntOfPrimitive(prim) ==
    IF Thrown(prim.o) THEN prim ELSE Step(PrimBigIntOf(prim.o.v), prim.log)
BigIntOf(v, log) == BigIntOfPrimitive(ToPrimitive(v, HintNumber, log))

\* throw new Error(`${prefix}${value}`): the value is rendered after the
\* calls of log, and rendering it may itself throw.
ThrowRendered(prefix, text) ==
    IF Thrown(text.o) THEN text.o ELSE Throw(prefix \o Flat(text.o.v.s))
ThrowRendering(prefix, value, log) == ThrowRendered(prefix, TemplateOf(value, log))

\* case "number": Number(value), and when that is NaN the value is
\* converted a second time, for the message.
CoerceNumberFrom(num, value) ==
    IF Thrown(num.o) THEN num.o
    ELSE IF isNaN(num.o.v)
    THEN ThrowRendering("Cannot coerce value to number: ", value, num.log)
    ELSE num.o
CoerceNumber(value) == CoerceNumberFrom(NumberOf(value, <<>>), value)

\* case "bigint": BigInt(value), and when that throws the value is
\* converted a second time, for the message.
CoerceBigIntFrom(big, value) ==
    IF Thrown(big.o)
    THEN ThrowRendering("Cannot coerce value to bigint: ", value, big.log)
    ELSE big.o
CoerceBigInt(value) == CoerceBigIntFrom(BigIntOf(value, <<>>), value)

\* Mutant of CoerceObject: null is not let through.
CoerceObject_notNull(value) ==
    IF value.t # "null" /\ typeof(value) = "object" THEN Return(value)
    ELSE Throw("Cannot coerce value of type \"" \o typeof(value) \o "\" to object.")

CoerceObject(value) ==
    IF value.t = "null" \/ typeof(value) = "object" THEN Return(value)
    ELSE Throw("Cannot coerce value of type \"" \o typeof(value) \o "\" to object.")

CoerceSymbol(value) ==
    IF typeof(value) = "symbol" THEN Return(value)
    ELSE Throw("Cannot coerce to symbol unless value is already a symbol.")

CoerceUndefined(value) ==
    IF typeof(value) = "undefined" THEN Return(Undefined)
    ELSE Throw("Cannot coerce value of type \"" \o typeof(value) \o "\" to undefined.")

coerceToType(value, tag) ==
    CASE tag = "string" -> StringOf(value, <<>>).o
      [] tag = "number" -> CoerceNumber(value)
      [] tag = "boolean" -> Return(Bool(BooleanOf(value)))
      [] tag = "bigint" -> CoerceBigInt(value)
      [] tag = "object" -> CoerceObject(value)
      [] tag = "symbol" -> CoerceSymbol(value)
      [] tag = "undefined" -> CoerceUndefined(value)
      [] OTHER -> Throw("Unsupported target type: \"" \o tag \o "\".")

(***************************************************************************)
(* JSON.stringify(value)                                                   *)
(***************************************************************************)
Backspace == CodeName(8)
NamedControls == {CodeName(n) : n \in 0..31}

\* The surrogate code units, the leading ones U+D800 to U+DBFF and the
\* trailing ones U+DC00 to U+DFFF: a leading one followed by a trailing one
\* is one character, any other surrogate is a lone one.
Surrogates == 55296..57343
LeadingSurrogates == {CodeName(n) : n \in 55296..56319}
TrailingSurrogates == {CodeName(n) : n \in 56320..57343}
IsLoneSurrogate(s, i) ==
    \/ s[i] \in LeadingSurrogates /\ ~(i < Len(s) /\ s[i + 1] \in TrailingSurrogates)
    \/ s[i] \in TrailingSurrogates /\ ~(i > 1 /\ s[i - 1] \in LeadingSurrogates)

\* UnicodeEscape of a code unit: \u and its four hexadecimal digits in
\* lower case.
UnicodeEscape(n) ==
    <<"\\", "u", HexChars[(n \div 4096) + 1], HexChars[((n \div 256) % 16) + 1],
      HexChars[((n \div 16) % 16) + 1], HexChars[(n % 16) + 1]>>

\* QuoteJSONString's escape of the character s[i]: the quote, the backslash
\* and the control characters are escaped, a lone surrogate is escaped,
\* every other character is itself.
JsonEscape(s, i) ==
    CASE s[i] = "\"" -> <<"\\", "\"">>
      [] s[i] = "\\" -> <<"\\", "\\">>
      [] s[i] \in {"\n", CodeName(10)} -> <<"\\", "n">>
      [] s[i] \in {"\t", CodeName(9)} -> <<"\\", "t">>
      [] s[i] \in {"\r", CodeName(13)} -> <<"\\", "r">>
      [] s[i] \in {"\f", CodeName(12)} -> <<"\\", "f">>
      [] s[i] = Backspace -> <<"\\", "b">>
      [] s[i] \in NamedControls ->
            UnicodeEscape(CHOOSE k \in 0..31 : CodeName(k) = s[i])
      [] IsLoneSurrogate(s, i) ->
            UnicodeEscape(CHOOSE k \in Surrogates : CodeName(k) = s[i])
      [] OTHER -> <<s[i]>>

JsonEscapeAll(s) == Concat([i \in 1..Len(s) |-> JsonEscape(s, i)], 1, Len(s))

QuoteJSONString(s) == <<"\"">> \o JsonEscapeAll(s) \o <<"\"">>

\* The texts of ts joined by the separator.
JoinWith(ts, sep) ==
    Concat([i \in 1..Len(ts) |-> IF i = 1 THEN ts[i] ELSE sep \o ts[i]], 1, Len(ts))

\* A finite number is written as its string form, any other as null.
JsonNumber(n) ==
    IF n.kind \in {"NaN", "Infinity"} THEN Chars_null ELSE NumberToString(n)

\* The value that is serialised in place of v, held under key: what v's own
\* toJSON member returns for the key when that member is a function.
ToJSON(key, v, log) ==
    IF v.t = "object" /\ IsCallable(v, Chars_toJSON)
    THEN Call(Own(v, Chars_toJSON), key, log)
    ELSE Step(Return(v), log)

\* The text of an array or object from the texts of its parts.
Bracketed(open, parts, close) ==
    IF Thrown(parts.o) THEN parts
    ELSE Step(Return(Str(<<open>> \o JoinWith(parts.o.v, <<",">>) \o <<close>>)),
              parts.log)

\* The texts of two runs of parts, the second written after the first.
PartsBoth(low, high) ==
    IF Thrown(high.o) THEN high ELSE Step(Return(low.o.v \o high.o.v), high.log)

\* The text of an array element: one without a representation is null.
ArrayElement(one) ==
    IF Thrown(one.o) THEN one
    ELSE Step(Return(<<IF one.o.v.t = "string" THEN one.o.v.s ELSE Chars_null>>),
              one.log)

\* The text of an object member: one whose value has no representation is
\* left out.
ObjectMember(key, one) ==
    IF Thrown(one.o) THEN one
    ELSE IF one.o.v.t # "string" THEN Step(Return(<<>>), one.log)
    ELSE Step(Return(<<QuoteJSONString(key.s) \o <<":">> \o one.o.v.s>>), one.log)

RECURSIVE SerializeJSONProperty(_, _, _)
RECURSIVE SerializeJSONArray(_, _, _, _)
RECURSIVE SerializeJSONObject(_, _, _, _)
\* The serialisation of a value after its toJSON: text, undefined for a
\* value that has no representation (undefined, a function, a symbol), a
\* TypeError on a big integer.
SerializeValue(v, log) ==
    CASE v.t = "null" -> Step(Return(Str(Chars_null)), log)
      [] v.t = "boolean" -> Step(Return(Str(IF v.b THEN Chars_true ELSE Chars_false)), log)
      [] v.t = "string" -> Step(Return(Str(QuoteJSONString(v.s))), log)
      [] v.t = "number" -> Step(Return(Str(JsonNumber(v))), log)
      [] v.t = "bigint" -> Step(NativeThrow("TypeError"), log)
      [] v.t = "array" ->
            Bracketed("[", SerializeJSONArray(v.es, 1, Len(v.es), log), "]")
      [] v.t = "object" ->
            Bracketed("{", SerializeJSONObject(v.ps, 1, Len(v.ps), log), "}")
      [] OTHER -> Step(Return(Undefined), log)

\* SerializeJSONProperty: the toJSON of the value held under key is called
\* with the key, and its result serialised.
SerializeResult(s) == IF Thrown(s.o) THEN s ELSE SerializeValue(s.o.v, s.log)
SerializeJSONProperty(key, v, log) == SerializeResult(ToJSON(key, v, log))

\* The texts of the elements es[lo], ..., es[hi] of an array, from the
\* first on; an element's key is its index.
ArrayHigh(low, es, lo, hi) ==
    IF Thrown(low.o) THEN low ELSE PartsBoth(low, SerializeJSONArray(es, lo, hi, low.log))
SerializeJSONArray(es, lo, hi, log) ==
    IF hi < lo THEN Step(Return(<<>>), log)
    ELSE IF lo < hi
    THEN ArrayHigh(SerializeJSONArray(es, lo, (lo + hi) \div 2, log),
                   es, (lo + hi) \div 2 + 1, hi)
    ELSE ArrayElement(SerializeJSONProperty(Str(NatToChars(lo - 1)), es[lo], log))

\* The texts of the members ps[lo], ..., ps[hi] of an object, from the
\* first on: a member with a symbol key is not looked at.
ObjectHigh(low, ps, lo, hi) ==
    IF Thrown(low.o) THEN low ELSE PartsBoth(low, SerializeJSONObject(ps, lo, hi, low.log))
SerializeJSONObject(ps, lo, hi, log) ==
    IF hi < lo THEN Step(Return(<<>>), log)
    ELSE IF lo < hi
    THEN ObjectHigh(SerializeJSONObject(ps, lo, (lo + hi) \div 2, log),
                    ps, (lo + hi) \div 2 + 1, hi)
    ELSE IF ps[lo].k.t # "string" THEN Step(Return(<<>>), log)
    ELSE ObjectMember(ps[lo].k, SerializeJSONProperty(ps[lo].k, ps[lo].v, log))

\* JSON.stringify(value): the value is written as the member of a holder
\* under the empty key: text, undefined when the value itself has no
\* representation, a TypeError on a big integer.
JSONstringify(v, log) == SerializeJSONProperty(Str(<<>>), v, log)

(***************************************************************************)
(* stringifyValue(val)                                                     *)
(***************************************************************************)
primitives ==
    {"string", "number", "boolean", "bigint", "symbol", "undefined", "null"}

\* Mutant of stringifyValue: objects are rendered by String as well.
stringifyValue_allString(val) == StringOf(val, <<>>).o

stringifyValue(val) ==
    IF typeof(val) \in primitives THEN StringOf(val, <<>>).o
    ELSE JSONstringify(val, <<>>).o

(***************************************************************************)
(* JSON.parse(text)                                                        *)
(***************************************************************************)
JsonWhiteSpace == {" ", "\t", "\n", "\r"}
JsonControl == {"\t", "\n", "\r", "\f"} \cup NamedControls

Fail == [ok |-> FALSE, v |-> Null, i |-> 0]
Ok(v, i) == [ok |-> TRUE, v |-> v, i |-> i]

\* The characters from the space (32) to the tilde (126), in the order of
\* their codes (the grave accent, which no TLA+ string holds, by its name).
Printable ==
    <<" ", "!", "\"", "#", "$", "%", "&", "'", "(", ")", "*", "+", ",", "-", ".", "/",
      "0", "1", "2", "3", "4", "5", "6", "7", "8", "9", ":", ";", "<", "=", ">", "?",
      "@", "A", "B", "C", "D", "E", "F", "G", "H", "I", "J", "K", "L", "M", "N", "O",
      "P", "Q", "R", "S", "T", "U", "V", "W", "X", "Y", "Z", "[", "\\", "]", "^", "_",
      CodeName(96),
      "a", "b", "c", "d", "e", "f", "g", "h", "i", "j", "k", "l", "m", "n", "o",
      "p", "q", "r", "s", "t", "u", "v", "w", "x", "y", "z", "{", "|", "}", "~">>

\* The character of a code unit: itself from the space to the tilde, the
\* tab, line feed, form feed and carriage return, and for every other code
\* unit its name.
CharOfCode(code) ==
    IF 32 <= code /\ code <= 126
    THEN Printable[code - 31]
    ELSE CASE code = 9 -> "\t"
           [] code = 10 -> "\n"
           [] code = 12 -> "\f"
           [] code = 13 -> "\r"
           [] OTHER -> CodeName(code)

\* The character a \uXXXX escape denotes, from its four hexadecimal digits.
CodeChar(h) == CharOfCode(RadixValue(h, 1, 5, 16))

\* The character a two-character escape denotes, "" when it is none.
SimpleEscape(e) ==
    CASE e = "\"" -> "\""
      [] e = "\\" -> "\\"
      [] e = "/" -> "/"
      [] e = "b" -> Backspace
      [] e = "f" -> "\f"
      [] e = "n" -> "\n"
      [] e = "r" -> "\r"
      [] e = "t" -> "\t"
      [] OTHER -> ""

RECURSIVE JsonStringAt(_, _, _)
\* The string whose opening quote precedes index i; acc is what was read.
JsonStringAt(s, i, acc) ==
    IF i > Len(s) THEN Fail
    ELSE IF s[i] = "\"" THEN Ok(Str(acc), i + 1)
    ELSE IF s[i] = "\\"
    THEN IF i + 1 > Len(s) THEN Fail
         ELSE IF SimpleEscape(s[i + 1]) # ""
         THEN JsonStringAt(s, i + 2, Append(acc, SimpleEscape(s[i + 1])))
         ELSE IF s[i + 1] = "u" /\ i + 5 <= Len(s)
                 /\ \A k \in (i + 2)..(i + 5) : s[k] \in RadixDigits(16)
         THEN JsonStringAt(s, i + 6, Append(acc, CodeChar(SubSeq(s, i + 2, i + 5))))
         ELSE Fail
    ELSE IF s[i] \in JsonControl THEN Fail
    ELSE JsonStringAt(s, i + 1, Append(acc, s[i]))

\* The number at index i: -? (0 | [1-9] digits) (. digits+)? ([eE] [+-]? digits+)?
\* scanned stage by stage: an exponent mark needs digits after it, a "."
\* needs digits after it, and the integer part is 0 or starts with 1-9.
JsonExponent(s, i, i1, i2, i3, i5) ==
    LET i6 == IF i5 = 0 THEN 0 ELSE SkipWhile(s, i5, DigitSet)
    IN  IF i5 # 0 /\ i6 = i5 THEN Fail
        ELSE Ok(DecimalValue(s, i, i1, i2, i3, i5, i6), IF i5 = 0 THEN i3 ELSE i6)

JsonFraction(s, i, i1, i2) ==
    LET i3 == IF HasAt(s, i2, <<".">>) THEN SkipWhile(s, i2 + 1, DigitSet) ELSE i2
    IN  IF i2 = i1 \/ i3 = i2 + 1 THEN Fail
        ELSE JsonExponent(s, i, i1, i2, i3, ExponentDigitsAt(s, i3))

JsonInteger(s, i, i1) ==
    IF i1 > Len(s) THEN Fail
    ELSE JsonFraction(s, i, i1,
                      IF s[i1] = "0" THEN i1 + 1 ELSE SkipWhile(s, i1, DigitSet))

JsonNumberAt(s, i) == JsonInteger(s, i, IF HasAt(s, i, <<"-">>) THEN i + 1 ELSE i)

\* An array index: the canonical decimal text of an integer
\* below 2^32 - 1.
MaxIndex == <<4, 2, 9, 4, 9, 6, 7, 2, 9, 5>>
IsIndexKey(k) ==
    /\ Len(k) \in 1..Len(MaxIndex)
    /\ \A i \in 1..Len(k) : k[i] \in DigitSet
    /\ (k[1] = "0" => Len(k) = 1)
    /\ BigLess(DigitsAt(k, 1, Len(k) + 1), MaxIndex)

\* CreateDataProperty in own-property order: a key already there keeps its
\* place; a new index key goes among the index keys, in ascending order,
\* ahead of the other keys; any other new key goes last.
PutProp(ps, k, v) ==
    IF \E i \in 1..Len(ps) : ps[i].k = k
    THEN [i \in 1..Len(ps) |-> IF ps[i].k = k THEN Prop(k, v) ELSE ps[i]]
    ELSE IF IsIndexKey(k.s)
    THEN LET n == DigitsAt(k.s, 1, Len(k.s) + 1)
             before == SelectSeq(ps, LAMBDA p :
                          /\ IsIndexKey(p.k.s)
                          /\ BigLess(DigitsAt(p.k.s, 1, Len(p.k.s) + 1), n))
         IN  before \o <<Prop(k, v)>> \o SubSeq(ps, Len(before) + 1, Len(ps))
    ELSE Append(ps, Prop(k, v))

RECURSIVE JsonValueAt(_, _)
RECURSIVE JsonElementsAt(_, _, _)
RECURSIVE JsonMembersAt(_, _, _)

\* The value that starts at index i, white space skipped.
JsonValueAt(s, i) ==
    LET j == SkipWhile(s, i, JsonWhiteSpace)
    IN  IF j > Len(s) THEN Fail
        ELSE IF HasAt(s, j, Chars_null) THEN Ok(Null, j + 4)
        ELSE IF HasAt(s, j, Chars_true) THEN Ok(Bool(TRUE), j + 4)
        ELSE IF HasAt(s, j, Chars_false) THEN Ok(Bool(FALSE), j + 5)
        ELSE IF s[j] = "\"" THEN JsonStringAt(s, j + 1, <<>>)
        ELSE IF s[j] = "[" 
        THEN LET k == SkipWhile(s, j + 1, JsonWhiteSpace)
             IN  IF HasAt(s, k, <<"]">>) THEN Ok(Arr(<<>>), k + 1)
                 ELSE JsonElementsAt(s, k, <<>>)
        ELSE IF s[j] = "{"
        THEN LET k == SkipWhile(s, j + 1, JsonWhiteSpace)
             IN  IF HasAt(s, k, <<"}">>) THEN Ok(Obj(<<>>), k + 1)
                 ELSE JsonMembersAt(s, k, <<>>)
        ELSE IF s[j] = "-" \/ s[j] \in DigitSet THEN JsonNumberAt(s, j)
        ELSE Fail

\* The elements of an array from index i on, up to its "]".
JsonElementsAt(s, i, acc) ==
    LET r == JsonValueAt(s, i)
        j == SkipWhile(s, r.i, JsonWhiteSpace)
    IN  IF ~r.ok THEN Fail
        ELSE IF HasAt(s, j, <<",">>) THEN JsonElementsAt(s, j + 1, Append(acc, r.v))
        ELSE IF HasAt(s, j, <<"]">>) THEN Ok(Arr(Append(acc, r.v)), j + 1)
        ELSE Fail

\* The members of an object from index i on, up to its "}".
JsonMembersAt(s, i, acc) ==
    LET j == SkipWhile(s, i, JsonWhiteSpace)
        key == IF HasAt(s, j, <<"\"">>) THEN JsonStringAt(s, j + 1, <<>>) ELSE Fail
        c == SkipWhile(s, key.i, JsonWhiteSpace)
        r == IF key.ok /\ HasAt(s, c, <<":">>) THEN JsonValueAt(s, c + 1) ELSE Fail
        e == SkipWhile(s, r.i, JsonWhiteSpace)
    IN  IF ~r.ok THEN Fail
        ELSE IF HasAt(s, e, <<",">>)
        THEN JsonMembersAt(s, e + 1, PutProp(acc, key.v, r.v))
        ELSE IF HasAt(s, e, <<"}">>) THEN Ok(Obj(PutProp(acc, key.v, r.v)), e + 1)
        ELSE Fail

\* Mutant of JSON.parse: a value followed by anything is accepted.
JSONparse_prefix(text) ==
    LET str == ToStringOf(text, <<>>).o
        r == JsonValueAt(str.v.s, 1)
    IN  IF Thrown(str) THEN str
        ELSE IF r.ok THEN Return(r.v)
        ELSE NativeThrow("SyntaxError")

\* JSON.parse(text): the argument's ToString must be one JSON value, white
\* space around it allowed; anything else is a SyntaxError.
JSONparse(text) ==
    LET str == ToStringOf(text, <<>>).o
        r == JsonValueAt(str.v.s, 1)
    IN  IF Thrown(str) THEN str
        ELSE IF r.ok /\ SkipWhile(str.v.s, r.i, JsonWhiteSpace) = Len(str.v.s) + 1
        THEN Return(r.v)
        ELSE NativeThrow("SyntaxError")

(***************************************************************************)
(* safeJsonParse(str, fallback = null)                                     *)
(***************************************************************************)
safeJsonParse(str, fallback) ==
    LET parsed == JSONparse(str)
    IN  IF Thrown(parsed)
        THEN Return(IF fallback.t = "undefined" THEN Null ELSE fallback)
        ELSE parsed

(***************************************************************************)
(* paranoidEquals(a, b)                                                    *)
(***************************************************************************)
\* The language type of a value: arrays and functions are objects.
TypeOf(v) == IF IsObject(v) THEN "object" ELSE v.t

IsZero(n) == n.kind = "-0" \/ (n.kind = "finite" /\ n.ds = <<>>)

\* Number::equal: NaN equals nothing, the two zeros are equal.
NumberEqual(x, y) ==
    /\ x.kind # "NaN" /\ y.kind # "NaN"
    /\ x = y \/ (IsZero(x) /\ IsZero(y))

\* A big integer and a number are equal when they are the same integer.
BigIntEqualsNumber(i, n) ==
    \/ IsZero(n) /\ i.ds = <<>>
    \/ /\ n.kind = "finite" /\ n.x >= 0 /\ n.ds # <<>> /\ n.neg = i.neg
       /\ IntegerValue(n) = i.ds

\* a === b.  An object is equal only to itself: one is whether both
\* operands are the same object.  A symbol is equal only to itself.
IsStrictlyEqual(x, y, one) ==
    IF TypeOf(x) # TypeOf(y) THEN FALSE
    ELSE IF x.t = "number" THEN NumberEqual(x, y)
    ELSE IF IsObject(x) THEN one
    ELSE x = y

RECURSIVE IsLooselyEqual(_, _, _, _)
\* a == b.  An object compared with a text, number, big integer or symbol
\* goes through ToPrimitive without a preferred type, whose error, if it
\* throws, is the outcome; its primitive is compared in the object's place.
EqualsRight(x, prim) ==
    IF Thrown(prim.o) THEN prim ELSE IsLooselyEqual(x, prim.o.v, FALSE, prim.log)
EqualsLeft(prim, y) ==
    IF Thrown(prim.o) THEN prim ELSE IsLooselyEqual(prim.o.v, y, FALSE, prim.log)
IsLooselyEqual(x, y, one, log) ==
    IF TypeOf(x) = TypeOf(y) THEN Step(Return(Bool(IsStrictlyEqual(x, y, one))), log)
    ELSE IF {x.t, y.t} = {"null", "undefined"} THEN Step(Return(Bool(TRUE)), log)
    ELSE IF x.t = "number" /\ y.t = "string"
    THEN Step(Return(Bool(NumberEqual(x, StringToNumber(y.s)))), log)
    ELSE IF x.t = "string" /\ y.t = "number"
    THEN Step(Return(Bool(NumberEqual(StringToNumber(x.s), y))), log)
    ELSE IF x.t = "bigint" /\ y.t = "string"
    THEN Step(Return(Bool(StringToBigInt(y.s).ok /\ StringToBigInt(y.s).v = x)), log)
    ELSE IF x.t = "string" /\ y.t = "bigint"
    THEN Step(Return(Bool(StringToBigInt(x.s).ok /\ StringToBigInt(x.s).v = y)), log)
    ELSE IF x.t = "boolean" THEN IsLooselyEqual(PrimToNumber(x), y, FALSE, log)
    ELSE IF y.t = "boolean" THEN IsLooselyEqual(x, PrimToNumber(y), FALSE, log)
    ELSE IF x.t \in {"string", "number", "bigint", "symbol"} /\ IsObject(y)
    THEN EqualsRight(x, ToPrimitive(y, HintDefault, log))
    ELSE IF IsObject(x) /\ y.t \in {"string", "number", "bigint", "symbol"}
    THEN EqualsLeft(ToPrimitive(x, HintDefault, log), y)
    ELSE IF x.t = "bigint" /\ y.t = "number"
    THEN Step(Return(Bool(BigIntEqualsNumber(x, y))), log)
    ELSE IF x.t = "number" /\ y.t = "bigint"
    THEN Step(Return(Bool(BigIntEqualsNumber(y, x))), log)
    ELSE Step(Return(Bool(FALSE)), log)

\* The text of typeof.
TypeofChars(v) ==
    CASE typeof(v) = "string" -> <<"s", "t", "r", "i", "n", "g">>
      [] typeof(v) = "number" -> <<"n", "u", "m", "b", "e", "r">>
      [] typeof(v) = "boolean" -> <<"b", "o", "o", "l", "e", "a", "n">>
      [] typeof(v) = "bigint" -> <<"b", "i", "g", "i", "n", "t">>
      [] typeof(v) = "symbol" -> <<"s", "y", "m", "b", "o", "l">>
      [] typeof(v) = "undefined" -> Chars_undefined
      [] typeof(v) = "function" -> <<"f", "u", "n", "c", "t", "i", "o", "n">>
      [] OTHER -> <<"o", "b", "j", "e", "c", "t">>

BoolChars(v) == IF v THEN Chars_true ELSE Chars_false
Indent == <<" ", " ", " ", " ">>
LooseLabel == <<"=", "=", " ", " ", ":", " ">>
StrictLabel == <<"=", "=", "=", " ", ":", " ">>
\* The warning line; it starts with the warning sign, U+26A0 U+FE0F.
CoercionWarning ==
    <<CodeName(9888), CodeName(65039)>>
    \o <<" ", "C", "o", "e", "r", "c", "i", "o", "n", " ",
         "h", "a", "p", "p", "e", "n", "e", "d", " ", "i", "n", " ",
         "'", "=", "=", "'", ".", " ", "B", "e", " ",
         "c", "a", "r", "e", "f", "u", "l", "!">>

\* The report: the template literal with its six substitutions.
Report(sa, ta, sb, tb, looseEqual, strictEqual) ==
    <<"\n">> \o Indent
    \o <<"C", "o", "m", "p", "a", "r", "i", "n", "g", " ">> \o sa
    \o <<" ", "(">> \o ta \o <<")", " ", "a", "n", "d", " ">> \o sb
    \o <<" ", "(">> \o tb \o <<")", ":", "\n", "\n">>
    \o Indent \o LooseLabel \o BoolChars(looseEqual) \o <<"\n">>
    \o Indent \o StrictLabel \o BoolChars(strictEqual) \o <<"\n", "\n">>
    \o Indent
    \o (IF looseEqual /\ ~strictEqual THEN CoercionWarning ELSE <<>>)
    \o <<"\n">>

\* paranoidEquals(a, b); one: a and b are the same object.  a == b is
\* evaluated first, then String(a), then String(b).
ReportSecond(looseEqual, sa, sb, p, q, strictEqual) ==
    IF Thrown(sb.o) THEN sb.o
    ELSE Return(Str(Report(sa.o.v.s, TypeofChars(p), sb.o.v.s, TypeofChars(q),
                           looseEqual.o.v.b, strictEqual)))
ReportFirst(looseEqual, sa, p, q, strictEqual) ==
    IF Thrown(sa.o) THEN sa.o
    ELSE ReportSecond(looseEqual, sa, StringOf(q, sa.log), p, q, strictEqual)
ReportFrom(looseEqual, p, q, strictEqual) ==
    IF Thrown(looseEqual.o) THEN looseEqual.o
    ELSE ReportFirst(looseEqual, StringOf(p, looseEqual.log), p, q, strictEqual)
paranoidEquals(p, q, one) ==
    ReportFrom(IsLooselyEqual(p, q, one, <<>>), p, q, IsStrictlyEqual(p, q, one))

(***************************************************************************)
(* The checked inputs.                                                     *)
(***************************************************************************)
Half == Norm(15, -1)    \* 1.5
FunSrc == <<"(", ")", " ", "=", ">", " ", "{", "}">>

SeqsUpTo(S, n) == UNION {[1..k -> S] : k \in 0..n}

Elements == {Num(1), Num(2), Str(<<"a">>), Null, Sym(<<"s">>)}
Arrays == {Arr(es) : es \in SeqsUpTo(Elements, MaxArrayLen)}
         \cup {Arr(<<Arr(<<Num(1)>>), Undefined>>)}
\* Functions that return 42, "x", 1.5 and an object, and one that throws.
Returns42 == Constant(<<"(", ")", " ", "=", ">", " ", "4", "2">>, Return(Num(42)))
ReturnsX == Constant(<<"(", ")", " ", "=", ">", " ", "'", "x", "'">>, Return(Str(<<"x">>)))
ReturnsHalf == Constant(<<"(", ")", " ", "=", ">", " ", "1", ".", "5">>, Return(Norm(15, -1)))
ReturnsObject == Constant(<<"(", ")", " ", "=", ">", " ", "(", "{", "}", ")">>, Return(Obj(<<>>)))
Throwing ==
    Constant(<<"(", ")", " ", "=", ">", " ", "{", " ", "t", "h", "r", "o", "w", " ",
               "n", "e", "w", " ", "E", "r", "r", "o", "r", "(", "'", "n", "o", "'",
               ")", " ", "}">>,
             Throw("no"))
\* h => h === "number" ? "x" : "1": a function that answers by its argument.
ByHint ==
    FunOf(1, <<"h", " ", "=", ">", " ", "h", " ", "=", "=", "=", " ", "\"", "n", "u",
               "m", "b", "e", "r", "\"", " ", "?", " ", "\"", "x", "\"", " ", ":",
               " ", "\"", "1", "\"">>,
          <<Answer(<<On(HintNumber, Return(Str(<<"x">>)))>>, Return(Str(<<"1">>)))>>)
\* () => n++ ? 7 : "x": a function that answers "x" to its first call and 7
\* to every later one.
ByCount ==
    FunOf(2, <<"(", ")", " ", "=", ">", " ", "n", "+", "+", " ", "?", " ", "7", " ",
               ":", " ", "\"", "x", "\"">>,
          <<Answer(<<>>, Return(Str(<<"x">>))), Answer(<<>>, Return(Num(7)))>>)
\* k => k === "" ? [k] : k === "0" ? "z" : undefined: a toJSON that answers
\* by the key.
ByKey ==
    FunOf(3, <<"k", " ", "=", ">", " ", "k", " ", "=", "=", "=", " ", "\"", "\"", " ",
               "?", " ", "[", "k", "]", " ", ":", " ", "k", " ", "=", "=", "=", " ",
               "\"", "0", "\"", " ", "?", " ", "\"", "z", "\"", " ", ":", " ",
               "u", "n", "d", "e", "f", "i", "n", "e", "d">>,
          <<Answer(<<On(Str(<<>>), Return(Arr(<<Str(<<>>)>>))),
                     On(Str(<<"0">>), Return(Str(<<"z">>)))>>,
                   Return(Undefined))>>)
\* s => s: a valueOf that returns the symbol Symbol("s") of the operands.
ReturnsSymbol == Constant(<<"(", ")", " ", "=", ">", " ", "s">>, Return(Sym(<<"s">>)))
\* {}, {a: 1}, objects with a toString, valueOf or Symbol.toPrimitive member
\* of their own (a function that returns undefined, a number, a text or an
\* object, or that throws; or no function), and one with a
\* Symbol.toStringTag.
Objects ==
    {Obj(<<>>), Obj(<<Prop(Str(<<"a">>), Num(1))>>),
     Obj(<<Prop(Str(Chars_toString), Fun(FunSrc))>>),
     Obj(<<Prop(Str(Chars_toString), Num(1))>>),
     Obj(<<Prop(Str(Chars_toString), ReturnsX)>>),
     Obj(<<Prop(Str(Chars_toString), ReturnsObject)>>),
     Obj(<<Prop(Str(Chars_toString), Throwing)>>),
     Obj(<<Prop(Str(Chars_valueOf), Returns42)>>),
     Obj(<<Prop(Str(Chars_valueOf), ReturnsHalf)>>),
     Obj(<<Prop(Str(Chars_valueOf), Returns42), Prop(Str(Chars_toString), ReturnsX)>>),
     Obj(<<Prop(SymbolToPrimitive, Fun(FunSrc))>>),
     Obj(<<Prop(SymbolToPrimitive, Returns42), Prop(Str(Chars_toString), ReturnsX)>>),
     Obj(<<Prop(SymbolToPrimitive, Num(1))>>),
     Obj(<<Prop(SymbolToStringTag, Str(<<"T">>))>>),
     Obj(<<Prop(SymbolToPrimitive, ByHint)>>),
     Obj(<<Prop(Str(Chars_valueOf), ByCount), Prop(Str(Chars_toString), ByCount)>>),
     Obj(<<Prop(Str(Chars_valueOf), ReturnsSymbol)>>)}
\* Arrays that hold such an object.
ObjectArrays ==
    {Arr(<<Obj(<<Prop(Str(Chars_toString), ReturnsX)>>)>>),
     Arr(<<Obj(<<Prop(Str(Chars_valueOf), Returns42)>>)>>),
     Arr(<<Obj(<<Prop(SymbolToPrimitive, Fun(FunSrc))>>)>>),
     Arr(<<Obj(<<Prop(SymbolToPrimitive, Returns42)>>)>>),
     Arr(<<Num(1), Obj(<<Prop(Str(Chars_toString), Throwing)>>)>>),
     Arr(<<Obj(<<Prop(SymbolToPrimitive, ByHint)>>)>>),
     Arr(<<Obj(<<Prop(Str(Chars_toString), ByCount)>>),
           Obj(<<Prop(Str(Chars_toString), ByCount)>>)>>),
     Arr(<<Obj(<<Prop(Str(Chars_toString), Num(1))>>), Sym(<<"s">>)>>)}
Primitives ==
    {Num(0), Num(1), Num(-1), Num(30), Half, NaN, PosInf, NegInf, NegZero,
     Str(<<>>), Str(<<"a">>), Str(<<"1">>), Bool(TRUE), Bool(FALSE),
     Null, Undefined, BigI(0), BigI(2), Sym(<<"s">>)}
Functions == {Fun(FunSrc), Returns42}
TextChars == {"0", "1", ".", "-", "e", "a", " "}
Texts == {Str(s) : s \in SeqsUpTo(TextChars, MaxTextLen)}
NestedArrays ==
    {Arr(<<Str(<<"1">>)>>), Arr(<<Str(<<" ", "1">>)>>), Arr(<<Arr(<<Num(2)>>)>>),
     Arr(<<Undefined>>), Arr(<<Bool(TRUE)>>), Arr(<<NegZero>>), Arr(<<NaN>>),
     Arr(<<Half>>), Arr(<<Obj(<<>>)>>), Arr(<<BigI(2)>>),
     Arr(<<Arr(<<Sym(<<"s">>)>>), Num(1)>>)}
JsonLeaves ==
    {Num(1), Num(-1), Half, NaN, NegZero, Str(<<"a">>), Str(<<"\"", "\\">>),
     Str(<<"\n", CodeName(56832)>>), Bool(TRUE), Null, Undefined, BigI(2), Sym(<<"s">>),
     Fun(FunSrc)}
\* Objects with a toJSON member of their own.
JsonWriters ==
    {Obj(<<Prop(Str(Chars_toJSON), Fun(FunSrc))>>),
     Obj(<<Prop(Str(Chars_toJSON), Fun(FunSrc)), Prop(Str(<<"b">>), BigI(2))>>),
     Obj(<<Prop(Str(Chars_toJSON), Num(1))>>),
     Obj(<<Prop(Str(Chars_toJSON), ReturnsX)>>),
     Obj(<<Prop(Str(Chars_toJSON), Returns42), Prop(Str(<<"b">>), Num(1))>>),
     Obj(<<Prop(Str(Chars_toJSON), Throwing)>>),
     Obj(<<Prop(Str(Chars_toJSON), Constant(FunSrc, Return(BigI(2))))>>),
     Obj(<<Prop(Str(Chars_toJSON),
               Constant(FunSrc, Return(Arr(<<Undefined,
                                             Obj(<<Prop(Str(Chars_toJSON), ReturnsX)>>)>>))))>>),
     Obj(<<Prop(Str(Chars_toJSON),
               Constant(FunSrc, Return(Obj(<<Prop(Str(Chars_toJSON), ReturnsX),
                                             Prop(Str(<<"b">>), Num(1))>>))))>>),
     Obj(<<Prop(Str(Chars_toJSON), ByKey)>>),
     Obj(<<Prop(Str(Chars_toJSON), ByCount)>>),
     Obj(<<Prop(Str(<<"c">>), Obj(<<Prop(Str(Chars_toJSON), ByCount)>>)),
           Prop(Str(<<"d">>), Obj(<<Prop(Str(Chars_toJSON), ByCount)>>))>>)}
JsonKeys == {Str(<<"b">>), Str(<<"\"">>), Sym(<<"s">>)}
\* Objects list their members in own-property order (index keys first).
JsonFlat ==
    {Arr(es) : es \in SeqsUpTo(JsonLeaves, MaxArrayLen)}
    \cup {Obj(<<>>)} \cup JsonWriters
    \cup {Obj(<<Prop(k, v)>>) : k \in JsonKeys, v \in JsonLeaves}
    \cup {Obj(<<Prop(Str(<<"1">>), v), Prop(k, w)>>) :
              k \in JsonKeys, v \in JsonLeaves, w \in JsonLeaves}
JsonNested ==
    {Arr(<<x>>) : x \in JsonFlat}
    \cup {Arr(<<Num(1), x>>) : x \in JsonFlat}
    \cup {Obj(<<Prop(Str(<<"a">>), x)>>) : x \in JsonFlat}
JsonValues == Primitives \cup Functions \cup JsonFlat \cup JsonNested
JsonTextChars == {"[", "]", "1", ",", "\"", " "}
JsonNumberChars == {"0", "1", "-", ".", "e"}
\* The texts the tests hand to safeJsonParse.
TestTexts ==
    {Str(<<"{", "\"", "a", "\"", ":", "1", ",", "\"", "b", "\"", ":", "2", "}">>),
     Str(<<"[", "1", ",", "2", ",", "3", "]">>),
     Str(<<"\"", "h", "e", "l", "l", "o", "\"">>),
     Str(<<"1", "2", "3">>),
     Str(Chars_true),
     Str(Chars_null),
     Str(<<"n", "o", "t", " ", "j", "s", "o", "n">>),
     Str(<<"{", "m", "i", "s", "s", "i", "n", "g", ":",
           "q", "u", "o", "t", "e", "s", "}">>),
     Str(<<"i", "n", "v", "a", "l", "i", "d", " ", "j", "s", "o", "n">>)}
\* Texts with escapes: valid ones (of a letter, an accented letter, a pair
\* of surrogates, a lone surrogate in upper case, a control, a quote, a
\* backslash, a slash, in an array and in a key) and malformed ones.
Quoted(s) == Str(<<"\"">> \o s \o <<"\"">>)
EscapedTexts ==
    {Quoted(<<"\\", "u", "0", "0", "4", "1">>),
     Quoted(<<"\\", "u", "0", "0", "e", "9">>),
     Quoted(<<"\\", "u", "d", "8", "3", "d", "\\", "u", "d", "e", "0", "0">>),
     Quoted(<<"\\", "u", "D", "8", "3", "D">>),
     Quoted(<<"\\", "u", "0", "0", "0", "A">>),
     Quoted(<<"a", "\\", "n">>),
     Quoted(<<"\\", "\"">>),
     Quoted(<<"\\", "\\">>),
     Quoted(<<"\\", "/", "\\", "b">>),
     Quoted(<<"\\", "\\", "u", "0", "0", "4", "1">>),
     Quoted(<<"\\">>),
     Quoted(<<"\\", "x">>),
     Quoted(<<"\\", "u", "0", "0", "g", "1">>),
     Quoted(<<"\\", "u", "0", "0", "4">>),
     Quoted(<<"\t">>),
     Str(<<"[", "\"", "\\", "u", "0", "0", "4", "1", "\"", ",", "1", "]">>),
     Str(<<"{", "\"", "\\", "u", "0", "0", "6", "1", "\"", ":", "\"", "\\", "t",
           "\"", "}">>)}
JsonTexts ==
    {Str(s) : s \in SeqsUpTo(JsonTextChars, MaxJsonLen)}
    \cup {Str(s) : s \in SeqsUpTo(JsonNumberChars, MaxJsonLen)}
    \cup TestTexts \cup EscapedTexts
Fallbacks == {Undefined, Obj(<<>>), Num(1)}
TargetTypes ==
    {"string", "number", "boolean", "bigint", "object", "symbol", "undefined",
     "function"}
\* 1e23 and 2^64, whose shortest decimals are not their values.
Large == {Norm(1, 23), Rounded(FALSE, <<1, 8, 4, 4, 6, 7, 4, 4, 0, 7, 3, 7, 0, 9, 5, 5, 2>>, 3)}
Values ==
    Primitives \cup Texts \cup Arrays \cup NestedArrays \cup Objects \cup ObjectArrays
    \cup Functions \cup Large
\* 0.1 and 0.2, whose sum is not a decimal of as few digits.
Tenths == {Norm(1, -1), Norm(2, -1)}
AddOperands ==
    Primitives \cup Arrays \cup Objects \cup ObjectArrays \cup Functions \cup Tenths
EqualsOperands ==
    Primitives \cup Arrays \cup Objects \cup ObjectArrays \cup Functions
    \cup {SymOf(<<"s">>, 2), Num(5), Num(6), Str(<<"5">>), Str(<<" ", "1">>),
          Str(<<"1", ",", "2">>),
          Str(<<"0">>), Str(<<"2">>), Str(<<"a">>), Str(Chars_true),
          Str(Chars_objectObject), Str(FunSrc), Str(Chars_null),
          Arr(<<Num(5)>>), Arr(<<Arr(<<Sym(<<"s">>)>>)>>)}

NoOutcome == [kind |-> "none"]

(***************************************************************************)
(* addValues applied to a pair of operands.                                *)
(***************************************************************************)
InitAdd ==
    /\ fn = "none"
    /\ a \in AddOperands
    /\ b \in AddOperands
    /\ type = "none"
    /\ same = FALSE
    /\ out = NoOutcome

AddValues ==
    /\ fn = "none"
    /\ fn' = "addValues"
    /\ out' = addValues(a, b)
    /\ UNCHANGED <<a, b, type, same>>

NextAdd == AddValues

SpecAdd == InitAdd /\ [][NextAdd]_vars

(***************************************************************************)
(* Claims about addValues (checked under SpecAdd).                         *)
(***************************************************************************)
Called(f) == fn = f

\* The type name a message reports, as a table.
TypeName(v) ==
    CASE v.t = "number" -> "number"
      [] v.t = "string" -> "string"
      [] v.t = "boolean" -> "boolean"
      [] v.t = "bigint" -> "bigint"
      [] v.t = "symbol" -> "symbol"
      [] v.t = "undefined" -> "undefined"
      [] v.t = "function" -> "function"
      [] v.t = "null" -> "object"
      [] v.t = "array" -> "object"
      [] v.t = "object" -> "object"

\* C1: for arrays a and b, addValues(a, b) returns a sequence of length
\* a.length + b.length, a's elements in order followed by b's elements in
\* order, and the call leaves a and b unchanged.
C1_ArrayConcat ==
    [][(fn' = "addValues" /\ fn = "none" /\ IsArray(a) /\ IsArray(b)) =>
          /\ a' = a /\ b' = b
          /\ Returned(out') /\ IsArray(out'.v)
          /\ Len(out'.v.es) = Len(a.es) + Len(b.es)
          /\ \A i \in 1..Len(a.es) : out'.v.es[i] = a.es[i]
          /\ \A j \in 1..Len(b.es) : out'.v.es[Len(a.es) + j] = b.es[j]]_vars

C1_Witness ==
    /\ Called("addValues")
    /\ a = Arr(<<Num(1), Num(2)>>) /\ b = Arr(<<Num(2), Str(<<"a">>)>>)
    /\ out = Return(Arr(<<Num(1), Num(2), Num(2), Str(<<"a">>)>>))

\* C2 as stated: whenever an operand is undefined, addValues throws
\* 'Cannot add undefined values.', whatever the other operand is.
C2_Original ==
    (Called("addValues") /\ (a.t = "undefined" \/ b.t = "undefined")) =>
        ThrownWith(out, "Cannot add undefined values.")

\* C2 amended: whenever an operand is undefined and the other operand is not
\* a plain object, addValues throws 'Cannot add undefined values.'; with a
\* plain object on the other side it throws 'Cannot add values of type
\* "{typeA}" and "{typeB}".' instead, naming both operands' types.
C2_UndefinedOperand ==
    (Called("addValues") /\ (a.t = "undefined" \/ b.t = "undefined")) =>
        IF a.t = "object" \/ b.t = "object"
        THEN ThrownWith(out, "Cannot add values of type \"" \o TypeName(a)
                              \o "\" and \"" \o TypeName(b) \o "\".")
        ELSE ThrownWith(out, "Cannot add undefined values.")

C2_Witness ==
    /\ Called("addValues")
    /\ a.t = "array" /\ b.t = "undefined"
    /\ ThrownWith(out, "Cannot add undefined values.")

\* C3: whenever an operand is a non-null, non-array object, addValues throws
\* 'Cannot add values of type "{typeA}" and "{typeB}".' with the operands'
\* type names in argument order, an array and null being named "object";
\* this holds also when the other operand is undefined.
C3_ObjectOperand ==
    (Called("addValues") /\ (a.t = "object" \/ b.t = "object")) =>
        ThrownWith(out, "Cannot add values of type \"" \o TypeName(a)
                         \o "\" and \"" \o TypeName(b) \o "\".")

C3_Witness ==
    /\ Called("addValues")
    /\ a.t = "undefined" /\ b.t = "object"
    /\ ThrownWith(out, "Cannot add values of type \"undefined\" and \"object\".")

\* The operands that reach addValues' final fallback.
ReachesFallback ==
    /\ ~(IsArray(a) /\ IsArray(b))
    /\ a.t # "object" /\ b.t # "object"
    /\ a.t # "undefined" /\ b.t # "undefined"

\* What + counts a number, a boolean or null as; the rule gives no count
\* to any other value.
Counted(v) ==
    CASE v.t = "boolean" -> IF v.b THEN Num(1) ELSE Num(0)
      [] v.t = "null" -> Num(0)
      [] v.t = "number" -> v
      [] OTHER -> NaN

FallbackRule ==
    IF IsString(a) \/ IsString(b)
    THEN out = Return(Str(ToStringChars(a) \o ToStringChars(b)))
    ELSE out = Return(NumAdd(Counted(a), Counted(b)))

\* C4 as stated: every pair that reaches the fallback returns a value, text
\* concatenation when an operand is text and the numeric sum otherwise, and
\* the result is text only when an operand is text.
C4_Original ==
    (Called("addValues") /\ ReachesFallback) =>
        /\ Returned(out)
        /\ FallbackRule
        /\ (IsString(out.v) => (IsString(a) \/ IsString(b)))

Plain(v) == v.t \in {"number", "string", "boolean", "null"}

\* C4 amended: a pair of operands that are each a number, text, a boolean or
\* null returns a value by that rule, and its result is text only when an
\* operand is text.  Of the other pairs that reach the fallback: an array
\* whose conversion to text throws (the left operand's first) makes + throw
\* that error; else a symbol operand throws a TypeError; else a pair with
\* text, an array or a function returns the concatenation of both operands'
\* string forms (text without a text operand); two big integers return
\* their sum; a big integer with a number, a boolean or null throws a
\* TypeError.
C4_Fallback ==
    (Called("addValues") /\ ReachesFallback) =>
        IF Plain(a) /\ Plain(b)
        THEN /\ Returned(out)
             /\ FallbackRule
             /\ (IsString(out.v) => (IsString(a) \/ IsString(b)))
        ELSE IF IsArray(a) /\ ToStringThrows(a) THEN out = ToStringOf(a, <<>>).o
        ELSE IF IsArray(b) /\ ToStringThrows(b) THEN out = ToStringOf(b, <<>>).o
        ELSE IF a.t = "symbol" \/ b.t = "symbol"
        THEN Thrown(out) /\ out.error = "TypeError"
        ELSE IF {a.t, b.t} \cap {"string", "array", "function"} # {}
        THEN out = Return(Str(ToStringChars(a) \o ToStringChars(b)))
        ELSE IF a.t = "bigint" /\ b.t = "bigint"
        THEN out = Return(BigIntAdd(a, b))
        ELSE Thrown(out) /\ out.error = "TypeError"

C4_Witness ==
    /\ Called("addValues")
    /\ a = Null /\ b = Bool(TRUE)
    /\ out = Return(Num(1))

(***************************************************************************)
(* invertBoolean(val)                                                      *)
(***************************************************************************)
invertBoolean(val) ==
    IF typeof(val) # "boolean" THEN Throw("Argument is not a boolean.")
    ELSE Return(Bool(~val.b))

(***************************************************************************)
(* The one-argument conversions applied to a value.                        *)
(***************************************************************************)
InitNum ==
    /\ fn = "none"
    /\ a \in Values
    /\ b = Undefined
    /\ type = "none"
    /\ same = FALSE
    /\ out = NoOutcome

ConvertToNumber ==
    /\ fn = "none"
    /\ fn' = "convertToNumber"
    /\ out' = convertToNumber(a)
    /\ UNCHANGED <<a, b, type, same>>

InvertBoolean ==
    /\ fn = "none"
    /\ fn' = "invertBoolean"
    /\ out' = invertBoolean(a)
    /\ UNCHANGED <<a, b, type, same>>

NextNum == ConvertToNumber \/ InvertBoolean

SpecNum == InitNum /\ [][NextNum]_vars

(***************************************************************************)
(* Claims about convertToNumber (checked under SpecNum).                   *)
(***************************************************************************)
\* The grammar of numeric literals, stated on whole texts.
AllIn(s, S) == \A i \in 1..Len(s) : s[i] \in S
IsDigits(s) == Len(s) > 0 /\ AllIn(s, DigitSet)
IsSignedDigits(s) ==
    IsDigits(s) \/ (Len(s) > 1 /\ s[1] \in {"+", "-"} /\ IsDigits(Tail(s)))
IsMantissa(s) ==
    \/ IsDigits(s)
    \/ \E p \in 1..Len(s) :
          /\ s[p] = "."
          /\ AllIn(SubSeq(s, 1, p - 1), DigitSet)
          /\ AllIn(SubSeq(s, p + 1, Len(s)), DigitSet)
          /\ Len(s) > 1
IsExponent(s) == Len(s) > 1 /\ s[1] \in {"e", "E"} /\ IsSignedDigits(Tail(s))
IsUnsignedDecimal(s) ==
    \/ s = Chars_Infinity
    \/ \E i \in 1..Len(s) :
          /\ IsMantissa(SubSeq(s, 1, i))
          /\ i = Len(s) \/ IsExponent(SubSeq(s, i + 1, Len(s)))
IsDecimalLiteral(s) ==
    \/ IsUnsignedDecimal(s)
    \/ Len(s) > 1 /\ s[1] \in {"+", "-"} /\ IsUnsignedDecimal(Tail(s))

Without(s, c) == SelectSeq(s, LAMBDA ch : ch # c)
IndexOf(s, S) == IF \E i \in 1..Len(s) : s[i] \in S
                 THEN CHOOSE i \in 1..Len(s) : s[i] \in S /\ \A k \in 1..(i - 1) : s[k] \notin S
                 ELSE Len(s) + 1

\* The value a decimal literal denotes, by taking it apart.
LiteralValue(l) ==
    LET neg == l[1] = "-"
        u == IF l[1] \in {"+", "-"} THEN Tail(l) ELSE l
        e == IndexOf(u, {"e", "E"})
        mant == SubSeq(u, 1, e - 1)
        expo == SubSeq(u, e + 1, Len(u))
        dot == IndexOf(mant, {"."})
        nFrac == IF dot > Len(mant) THEN 0 ELSE Len(mant) - dot
        digits == Without(mant, ".")
        expDigits == IF expo # <<>> /\ expo[1] \in {"+", "-"} THEN Tail(expo) ELSE expo
        expAbs == DigitsValue(expDigits, 1, Len(expDigits) + 1)
        expVal == IF expo # <<>> /\ expo[1] = "-" THEN -expAbs ELSE expAbs
        m == DigitsValue(digits, 1, Len(digits) + 1)
    IN  IF u = Chars_Infinity THEN (IF neg THEN NegInf ELSE PosInf)
        ELSE IF m = 0 THEN (IF neg THEN NegZero ELSE Num(0))
        ELSE Norm(IF neg THEN -m ELSE m, expVal - nFrac)

HasDot(s) == \E i \in 1..Len(s) : s[i] = "."
DropLeadingSpace(s) == SubSeq(s, SkipWhile(s, 1, WhiteSpace), Len(s))
MaxOf(S) == CHOOSE k \in S : \A j \in S : j <= k

\* C5 as stated: a text that is not entirely a decimal numeric literal makes
\* convertToNumber throw 'Cannot convert string to number.', and a text that
\* is one makes it return a number.
C5_Original ==
    (Called("convertToNumber") /\ IsString(a)) =>
        IF IsDecimalLiteral(a.s)
        THEN Returned(out) /\ IsNumber(out.v) /\ ~isNaN(out.v)
        ELSE ThrownWith(out, "Cannot convert string to number.")

\* The lengths of the prefixes of t that are literals of the parse used for s.
LeadingLiterals(s, t) ==
    {k \in 1..Len(t) :
        IF HasDot(s) THEN IsDecimalLiteral(SubSeq(t, 1, k))
        ELSE IsSignedDigits(SubSeq(t, 1, k))}

\* C5 amended: convertToNumber(s) skips leading white space and reads the
\* longest leading literal, ignoring what follows it: an optionally signed
\* run of digits when s holds no decimal point, and a decimal literal
\* (optional sign, digits, fraction, exponent, or Infinity) when s holds a
\* decimal point anywhere.  It throws 'Cannot convert string to number.'
\* exactly when there is no such leading literal and otherwise returns the
\* value of that literal.
C5_TextParse ==
    (Called("convertToNumber") /\ IsString(a)) =>
        LET t == DropLeadingSpace(a.s)
            lits == LeadingLiterals(a.s, t)
        IN  IF lits = {}
            THEN ThrownWith(out, "Cannot convert string to number.")
            ELSE out = Return(LiteralValue(SubSeq(t, 1, MaxOf(lits))))

C5_Witness ==
    /\ Called("convertToNumber")
    /\ a = Str(<<"1", ".", "a">>)
    /\ out = Return(Num(1))

RECURSIVE HoldsSymbol(_)
\* A symbol, or an array that holds one at any depth.
HoldsSymbol(v) ==
    \/ v.t = "symbol"
    \/ v.t = "array" /\ \E i \in 1..Len(v.es) : HoldsSymbol(v.es[i])

\* A plain object without a conversion member of its own: no toString, no
\* valueOf, no Symbol.toPrimitive.
HasNoConversion(v) ==
    /\ v.t = "object"
    /\ \A i \in 1..Len(v.ps) :
          v.ps[i].k \notin {Str(Chars_toString), Str(Chars_valueOf), SymbolToPrimitive}

ObjectMessage == "Cannot convert object to number."

\* The table for the values that are not text, arrays and objects aside.
C6_Scalars ==
    CASE a.t = "number" -> out = Return(a)
      [] a.t = "boolean" -> out = Return(IF a.b THEN Num(1) ELSE Num(0))
      [] a.t = "null" -> out = Return(Num(0))
      [] a.t = "undefined" -> ThrownWith(out, "Cannot convert undefined to number.")
      [] OTHER -> ThrownWith(out, "Cannot convert type \"" \o TypeName(a)
                                    \o "\" to number.")

\* What a single-element array [e] converts to.
C6_Single(e) ==
    CASE e.t = "number" ->
            IF e.kind = "NaN" THEN ThrownWith(out, ObjectMessage)
            ELSE IF e.kind = "-0" THEN out = Return(Num(0))
            ELSE out = Return(e)
      [] e.t \in {"null", "undefined"} -> out = Return(Num(0))
      [] OTHER -> \/ ThrownWith(out, ObjectMessage)
                  \/ Returned(out) /\ IsNumber(out.v) /\ ~isNaN(out.v)

\* C6 as stated: the table, with every array of two or more elements and
\* every plain object throwing 'Cannot convert object to number.'.
C6_Original ==
    (Called("convertToNumber") /\ ~IsString(a)) =>
        IF a.t = "object" \/ (a.t = "array" /\ Len(a.es) >= 2)
        THEN ThrownWith(out, ObjectMessage)
        ELSE IF a.t = "array" /\ Len(a.es) = 0 THEN out = Return(Num(0))
        ELSE IF a.t = "array" THEN HoldsSymbol(a) \/ C6_Single(a.es[1])
        ELSE C6_Scalars

\* The primitive form of a value under the hint "number", as Number and
\* BigInt take it: what ToPrimitive returns or throws.
NumericForm(v) == ToPrimitive(v, HintNumber, <<>>).o

\* What Number gives for an array or object whose primitive form is p.
C6_Primitive(p) ==
    CASE p.t = "number" ->
            IF p.kind = "NaN" THEN ThrownWith(out, ObjectMessage) ELSE out = Return(p)
      [] p.t = "boolean" -> out = Return(IF p.b THEN Num(1) ELSE Num(0))
      [] p.t = "null" -> out = Return(Num(0))
      [] p.t = "undefined" -> ThrownWith(out, ObjectMessage)
      [] p.t = "bigint" ->
            out = Return(Num(IF p.neg THEN -DigitsNat(p.ds) ELSE DigitsNat(p.ds)))
      [] p.t = "symbol" -> Thrown(out) /\ out.error = "TypeError"
      [] OTHER -> \/ ThrownWith(out, ObjectMessage)
                  \/ Returned(out) /\ IsNumber(out.v) /\ ~isNaN(out.v)

\* C6 amended: the same table, except for the arrays and objects.  Number
\* takes the primitive form of an array or object first: an array's
\* elements joined as text, a plain object's Symbol.toPrimitive (called
\* with "number"), valueOf or toString result.  When that throws (an array
\* holding a symbol at any depth, a plain object whose members give no
\* primitive or whose method throws, an array holding such an object) the
\* error is let through, and
\* a primitive form that is a symbol is a TypeError.  Otherwise the number
\* the primitive form converts to is returned, and 'Cannot convert object
\* to number.' is thrown when that is NaN: for every array of two or more
\* elements and for every plain object that has no conversion member of
\* its own, but not for an object whose valueOf returns 42.
C6_Table ==
    (Called("convertToNumber") /\ ~IsString(a)) =>
        IF a.t \notin {"array", "object"} THEN C6_Scalars
        ELSE IF Thrown(NumericForm(a)) THEN out = NumericForm(a)
        ELSE /\ C6_Primitive(NumericForm(a).v)
             /\ (a.t = "array" /\ Len(a.es) >= 2) => ThrownWith(out, ObjectMessage)
             /\ HasNoConversion(a) => ThrownWith(out, ObjectMessage)
             /\ (a.t = "array" /\ Len(a.es) = 0) => out = Return(Num(0))
             /\ (a.t = "array" /\ Len(a.es) = 1 /\ ~IsObject(a.es[1]))
                   => C6_Single(a.es[1])

C6_Witness ==
    /\ Called("convertToNumber")
    /\ a = Arr(<<Num(1), Num(2)>>)
    /\ ThrownWith(out, ObjectMessage)

(***************************************************************************)
(* coerceToType applied to a value and a target type tag.                  *)
(***************************************************************************)
InitCoerce ==
    /\ fn = "none"
    /\ a \in Values
    /\ b = Undefined
    /\ type \in TargetTypes
    /\ same = FALSE
    /\ out = NoOutcome

CoerceToType ==
    /\ fn = "none"
    /\ fn' = "coerceToType"
    /\ out' = coerceToType(a, type)
    /\ UNCHANGED <<a, b, type, same>>

NextCoerce == CoerceToType

SpecCoerce == InitCoerce /\ [][NextCoerce]_vars

(***************************************************************************)
(* Claims about coerceToType (checked under SpecCoerce).                   *)
(***************************************************************************)
Coerced(tag) == Called("coerceToType") /\ type = tag

IsIntegerNumber(v) ==
    v.t = "number" /\ (v.kind = "-0" \/ (v.kind = "finite" /\ v.x >= 0))
IntegerOf(v) ==
    IF v.kind = "-0" THEN BigI(0) ELSE BigOf(v.neg /\ v.ds # <<>>, IntegerValue(v))

SignedDigitsValue(s) ==
    IF s[1] = "-" THEN -DigitsValue(s, 2, Len(s) + 1)
    ELSE IF s[1] = "+" THEN DigitsValue(s, 2, Len(s) + 1)
    ELSE DigitsValue(s, 1, Len(s) + 1)

\* The display text of a value: String(value), empty where that throws.
DisplayText(v) ==
    IF v.t = "symbol" THEN SymbolChars(v)
    ELSE IF ToStringThrows(v) THEN <<>>
    ELSE ToStringChars(v)

\* C7 as stated: an integer-valued number, integer-looking text or a big
\* integer gives the equal big integer; every other value fails with
\* 'Cannot coerce value to bigint: ' followed by its display text.
C7_Original ==
    Coerced("bigint") =>
        IF IsIntegerNumber(a) THEN out = Return(IntegerOf(a))
        ELSE IF IsString(a) /\ IsSignedDigits(a.s)
        THEN out = Return(BigI(SignedDigitsValue(a.s)))
        ELSE IF a.t = "bigint" THEN out = Return(a)
        ELSE ThrownWith(out, "Cannot coerce value to bigint: " \o Flat(DisplayText(a)))

\* Text that BigInt reads: after trimming white space, empty or an
\* optionally signed run of digits (or a 0x / 0o / 0b literal).
IsBigIntText(s) ==
    LET u == Trim(s)
    IN  u = <<>> \/ IsSignedDigits(u) \/ NonDecimalRadix(u) # 0
BigIntTextValue(s) ==
    LET u == Trim(s)
    IN  IF u = <<>> THEN 0
        ELSE IF NonDecimalRadix(u) # 0
        THEN RadixValue(u, 3, Len(u) + 1, NonDecimalRadix(u))
        ELSE SignedDigitsValue(u)

\* The big integer BigInt gives for the primitive p, NoOutcome if it gives
\* none.
C7_Read(p) ==
    CASE p.t = "number" -> IF IsIntegerNumber(p) THEN Return(IntegerOf(p)) ELSE NoOutcome
      [] p.t = "bigint" -> Return(p)
      [] p.t = "boolean" -> Return(BigI(IF p.b THEN 1 ELSE 0))
      [] p.t = "string" ->
            IF IsBigIntText(p.s) THEN Return(BigI(BigIntTextValue(p.s))) ELSE NoOutcome
      [] OTHER -> NoOutcome

\* The string form of a value once its primitive form has been taken: what
\* the template literal of the error message gives, the value being
\* converted a second time, under the hint "string".
SecondText(v) == ToStringOf(v, ToPrimitive(v, HintNumber, <<>>).log).o

\* C7 amended: coerceToType(value, "bigint") returns BigInt(value) whenever
\* that succeeds.  BigInt reads the primitive form of the value (the value
\* itself; an array's elements joined as text; a function's source text; a
\* plain object's Symbol.toPrimitive result for "number", or else its
\* valueOf or toString result): the equal big integer for an
\* integer-valued number or a big integer, 1n / 0n for true / false, and
\* the integer read from a text that after trimming white space is empty
\* (giving 0n) or an optionally signed run of decimal digits (or a 0x / 0o
\* / 0b literal).  In every other case, also when taking the primitive
\* form throws, the value is converted a second time, to its string form
\* (a plain object's Symbol.toPrimitive result for "string", or else its
\* toString or valueOf result, the methods being called again), and the
\* call fails with 'Cannot coerce value to bigint: ' followed by that
\* string form, which need not be the text BigInt was given; unless
\* building the string form throws (a symbol, an array holding a symbol, a
\* plain object whose members give no text or whose method throws, an
\* array holding such an object): then that error is what is thrown.
C7_BigInt ==
    Coerced("bigint") =>
        IF ~Thrown(NumericForm(a)) /\ C7_Read(NumericForm(a).v) # NoOutcome
        THEN out = C7_Read(NumericForm(a).v)
        ELSE IF Thrown(SecondText(a)) THEN out = SecondText(a)
        ELSE ThrownWith(out, "Cannot coerce value to bigint: "
                               \o Flat(SecondText(a).v.s))

\* An object whose Symbol.toPrimitive gives "x" for "number" and "1" for
\* "string": BigInt fails on "x" and the message shows "1".
C7_Witness ==
    /\ Coerced("bigint")
    /\ a = Obj(<<Prop(SymbolToPrimitive, ByHint)>>)
    /\ out = Throw("Cannot coerce value to bigint: 1")

\* C8 as stated: the boolean target never throws and gives false exactly on
\* the empty text, 0, null, undefined and false.
C8_Original ==
    Coerced("boolean") =>
        out = Return(Bool(~(\/ a = Str(<<>>)
                            \/ a = Num(0) \/ a = NegZero
                            \/ a = Null \/ a = Undefined
                            \/ a = Bool(FALSE))))

\* C8 amended: the boolean target never throws and gives false exactly on
\* the empty text, 0 (and -0), NaN, the big integer 0n, null, undefined and
\* false, and true on every other value.
C8_Boolean ==
    Coerced("boolean") =>
        out = Return(Bool(~(\/ a = Str(<<>>)
                            \/ a = Num(0) \/ a = NegZero \/ a = NaN
                            \/ a = BigI(0)
                            \/ a = Null \/ a = Undefined
                            \/ a = Bool(FALSE))))

C8_Witness ==
    /\ Coerced("boolean")
    /\ a = Arr(<<>>)
    /\ out = Return(Bool(TRUE))

\* C9: the targets "object", "symbol" and "undefined" never convert: the
\* input is returned unchanged exactly when it is null or object-typed,
\* a symbol, or undefined respectively, and otherwise the call throws the
\* target's message, naming the value's type name where the message has
\* one (null is named "object").
C9_PassThrough ==
    /\ Coerced("object") =>
          IF a.t \in {"null", "array", "object"} THEN out = Return(a)
          ELSE ThrownWith(out, "Cannot coerce value of type \"" \o TypeName(a)
                                 \o "\" to object.")
    /\ Coerced("symbol") =>
          IF a.t = "symbol" THEN out = Return(a)
          ELSE ThrownWith(out, "Cannot coerce to symbol unless value is already a symbol.")
    /\ Coerced("undefined") =>
          IF a.t = "undefined" THEN out = Return(a)
          ELSE ThrownWith(out, "Cannot coerce value of type \"" \o TypeName(a)
                                 \o "\" to undefined.")

C9_Witness ==
    /\ Coerced("undefined")
    /\ a = Null
    /\ out = Throw("Cannot coerce value of type \"object\" to undefined.")

(***************************************************************************)
(* stringifyValue applied to a value.                                      *)
(***************************************************************************)
InitStringify ==
    /\ fn = "none"
    /\ a \in JsonValues
    /\ b = Undefined
    /\ type = "none"
    /\ same = FALSE
    /\ out = NoOutcome

StringifyValue ==
    /\ fn = "none"
    /\ fn' = "stringifyValue"
    /\ out' = stringifyValue(a)
    /\ UNCHANGED <<a, b, type, same>>

NextStringify == StringifyValue

SpecStringify == InitStringify /\ [][NextStringify]_vars

(***************************************************************************)
(* safeJsonParse applied to a text (or any value) and a fallback.          *)
(***************************************************************************)
InitParse ==
    /\ fn = "none"
    /\ a \in JsonTexts \cup Primitives \cup Objects
    /\ b \in Fallbacks
    /\ type = "none"
    /\ same = FALSE
    /\ out = NoOutcome

SafeJsonParse ==
    /\ fn = "none"
    /\ fn' = "safeJsonParse"
    /\ out' = safeJsonParse(a, b)
    /\ UNCHANGED <<a, b, type, same>>

NextParse == SafeJsonParse

SpecParse == InitParse /\ [][NextParse]_vars

(***************************************************************************)
(* Claims about stringifyValue (checked under SpecStringify).              *)
(***************************************************************************)
IsContainer(v) == v.t \in {"array", "object"}
IsTextKeyed(p) == p.k.t = "string"

RECURSIVE DropFunctionsAndSymbolKeys(_)
\* v without its function-valued and symbol-keyed members, at every depth.
DropFunctionsAndSymbolKeys(v) ==
    CASE v.t = "array" ->
            Arr([i \in 1..Len(v.es) |-> DropFunctionsAndSymbolKeys(v.es[i])])
      [] v.t = "object" ->
            LET kept == SelectSeq(v.ps, LAMBDA p : IsTextKeyed(p) /\ p.v.t # "function")
            IN  Obj([i \in 1..Len(kept) |->
                        Prop(kept[i].k, DropFunctionsAndSymbolKeys(kept[i].v))])
      [] OTHER -> v

\* C10 as stated: for a plain object or array, stringifyValue does not throw
\* and returns JSON text that decodes to the value without its
\* function-valued and symbol-keyed members.
C10_Original ==
    (Called("stringifyValue") /\ IsContainer(a)) =>
        /\ Returned(out) /\ IsString(out.v)
        /\ Returned(JSONparse(out.v))
        /\ safeJsonParse(out.v, Undefined) = Return(DropFunctionsAndSymbolKeys(a))

\* An object with a toJSON method of its own is written as what the method
\* returns for the key the object is held under.
HasToJSON(v) ==
    /\ v.t = "object"
    /\ \E i \in 1..Len(v.ps) : v.ps[i].k = Str(Chars_toJSON) /\ v.ps[i].v.t = "function"
WriterOf(v) == v.ps[CHOOSE i \in 1..Len(v.ps) : v.ps[i].k = Str(Chars_toJSON)].v

\* What is written in place of a value whose toJSON method threw.
Failed(o) == [t |-> "error", o |-> o]
Written(v, log) == [v |-> v, log |-> log]

RECURSIVE WrittenAs(_, _, _)
RECURSIVE WrittenAll(_, _, _)
\* The value as it is written, with the calls made so far: every object
\* that has a toJSON method is replaced by what the method returns for its
\* key (the empty text for the value itself, the index for an array
\* element, the name for an object member), the methods being called in
\* the order of writing, and what a method returns is not asked for its
\* own toJSON; a method that throws leaves its error.
WrittenMore(one, rest) == Written(<<one.v>> \o rest.v, rest.log)
WrittenNext(one, keys, vs) == WrittenMore(one, WrittenAll(Tail(keys), Tail(vs), one.log))
WrittenAll(keys, vs, log) ==
    IF vs = <<>> THEN Written(<<>>, log)
    ELSE IF Head(keys).t # "string"
    THEN WrittenNext(Written(Head(vs), log), keys, vs)
    ELSE WrittenNext(WrittenAs(Head(keys), Head(vs), log), keys, vs)
WrittenArray(all) == Written(Arr(all.v), all.log)
WrittenObject(w, all) ==
    Written(Obj([i \in 1..Len(w.ps) |-> Prop(w.ps[i].k, all.v[i])]), all.log)
WrittenWithin(w, log) ==
    CASE w.t = "array" ->
            WrittenArray(WrittenAll([i \in 1..Len(w.es) |-> Str(NatToChars(i - 1))],
                                    w.es, log))
      [] w.t = "object" ->
            WrittenObject(w, WrittenAll([i \in 1..Len(w.ps) |-> w.ps[i].k],
                                        [i \in 1..Len(w.ps) |-> w.ps[i].v], log))
      [] OTHER -> Written(w, log)
WrittenResult(res) ==
    IF Thrown(res.o) THEN Written(Failed(res.o), res.log)
    ELSE WrittenWithin(res.o.v, res.log)
WrittenAs(key, v, log) ==
    IF HasToJSON(v) THEN WrittenResult(Call(WriterOf(v), key, log))
    ELSE WrittenWithin(v, log)

RECURSIVE WriteErrors(_)
RECURSIVE AllErrors(_)
\* The errors met in writing w, in the order of writing: what a toJSON
\* method throws, and a TypeError on a big integer, in an array or under a
\* text key.
WriteErrors(w) ==
    CASE w.t = "error" -> <<w.o>>
      [] w.t = "bigint" -> <<NativeThrow("TypeError")>>
      [] w.t = "array" -> AllErrors(w.es)
      [] w.t = "object" ->
            AllErrors([i \in 1..Len(SelectSeq(w.ps, IsTextKeyed)) |->
                          SelectSeq(w.ps, IsTextKeyed)[i].v])
      [] OTHER -> <<>>
AllErrors(ws) ==
    IF ws = <<>> THEN <<>> ELSE WriteErrors(Head(ws)) \o AllErrors(Tail(ws))

\* A value that is written as nothing.
Unwritten(w) == w.t \in {"undefined", "function", "symbol"}

RECURSIVE Decoded(_)
\* What the text of w decodes to: object members that are symbol-keyed or
\* whose value is written as undefined, a function or a symbol are dropped;
\* such array elements become null; NaN and the infinities become null; -0
\* becomes 0.
Decoded(w) ==
    CASE w.t = "array" ->
            Arr([i \in 1..Len(w.es) |->
                    IF Unwritten(w.es[i]) THEN Null ELSE Decoded(w.es[i])])
      [] w.t = "object" ->
            LET kept == SelectSeq(w.ps, LAMBDA p : IsTextKeyed(p) /\ ~Unwritten(p.v))
            IN  Obj([i \in 1..Len(kept) |-> Prop(kept[i].k, Decoded(kept[i].v))])
      [] w.t = "number" ->
            IF w.kind \in {"NaN", "Infinity"} THEN Null
            ELSE IF w.kind = "-0" THEN Num(0)
            ELSE w
      [] OTHER -> w

\* The value a is written as.
WrittenValue == WrittenAs(Str(<<>>), a, <<>>).v

\* C10 amended: for a plain object or array v, JSON.stringify writes every
\* object that has a toJSON method of its own, v included, as the value
\* that method returns (for the key the object is held under, the methods
\* being called in the order of writing).  stringifyValue(v) throws what
\* such a method throws and throws a TypeError on a big integer, whichever
\* is met first in an array or under a text key.  Otherwise, when v itself
\* is written as undefined, a function or a symbol it returns undefined,
\* no text; and in every other case it returns JSON text, and decoding
\* that text yields v with these changes at every depth: object members
\* that are symbol-keyed or whose value is written as a function,
\* undefined or a symbol are dropped; array elements that are one of these
\* become null; NaN and the infinities become null and -0 becomes 0.  So
\* the decoded value is structurally equal to v (function-valued and
\* symbol-keyed members aside) only when v holds none of those.
C10_RoundTrip ==
    (Called("stringifyValue") /\ IsContainer(a)) =>
        IF WriteErrors(WrittenValue) # <<>> THEN out = WriteErrors(WrittenValue)[1]
        ELSE IF Unwritten(WrittenValue) THEN out = Return(Undefined)
        ELSE /\ Returned(out) /\ IsString(out.v)
             /\ Returned(JSONparse(out.v))
             /\ safeJsonParse(out.v, Undefined) = Return(Decoded(WrittenValue))

C10_Witness ==
    /\ Called("stringifyValue")
    /\ a = Obj(<<Prop(Str(<<"1">>), Half), Prop(Sym(<<"s">>), Num(1))>>)
    /\ out = Return(Str(<<"{", "\"", "1", "\"", ":", "1", ".", "5", "}">>))
    /\ safeJsonParse(out.v, Undefined) = Return(Obj(<<Prop(Str(<<"1">>), Half)>>))

(***************************************************************************)
(* paranoidEquals applied to a pair of operands.  Two operands that are    *)
(* objects and look alike may be one object or two.                        *)
(***************************************************************************)
InitEquals ==
    /\ fn = "none"
    /\ a \in EqualsOperands
    /\ b \in EqualsOperands
    /\ type = "none"
    /\ same \in (IF a = b /\ IsObject(a) THEN BOOLEAN ELSE {FALSE})
    /\ out = NoOutcome

ParanoidEquals ==
    /\ fn = "none"
    /\ fn' = "paranoidEquals"
    /\ out' = paranoidEquals(a, b, same)
    /\ UNCHANGED <<a, b, type, same>>

NextEquals == ParanoidEquals

SpecEquals == InitEquals /\ [][NextEquals]_vars

(***************************************************************************)
(* safeJsonParse: what a text denotes, read off the JSON grammar by taking *)
(* the text apart.                                                         *)
(***************************************************************************)
NoValue == [ok |-> FALSE, v |-> Null]
Denotes(v) == [ok |-> TRUE, v |-> v]

\* s without the JSON white space around it.
JsonTrim(s) ==
    LET inked == {i \in 1..Len(s) : s[i] \notin JsonWhiteSpace}
    IN  IF inked = {} THEN <<>>
        ELSE SubSeq(s, CHOOSE i \in inked : \A j \in inked : i <= j, MaxOf(inked))

\* -? (0 | [1-9] digits) (. digits+)? ([eE] [+-]? digits+)?
IsJsonNumber(s) ==
    LET u == IF s # <<>> /\ s[1] = "-" THEN Tail(s) ELSE s
        int == SubSeq(u, 1, IndexOf(u, {".", "e", "E"}) - 1)
    IN  /\ IsUnsignedDecimal(u)
        /\ u # Chars_Infinity
        /\ IsDigits(int)
        /\ int[1] = "0" => Len(int) = 1
        /\ \A p \in 1..Len(u) : u[p] = "." => (p < Len(u) /\ u[p + 1] \in DigitSet)

\* The backslashes of s that start an escape: those that follow an even
\* number of backslashes in a row.
BackslashesBefore(s, i) ==
    i - 1 - MaxOf({j \in 0..(i - 1) : j = 0 \/ s[j] # "\\"})
StartsEscape(s, i) ==
    i >= 1 /\ i <= Len(s) /\ s[i] = "\\" /\ BackslashesBefore(s, i) % 2 = 0

\* The characters of s that belong to an escape another character starts:
\* the one after the backslash, and the four after a \u.
InEscape(s, i) ==
    \/ StartsEscape(s, i - 1)
    \/ \E k \in 2..5 : StartsEscape(s, i - k) /\ s[i - k + 1] = "u"

\* The escapes of the JSON grammar and the characters they denote.
EscapeLetters == {"\"", "\\", "/", "b", "f", "n", "r", "t"}
EscapedChar(e) ==
    CASE e = "b" -> CodeName(8)
      [] e = "f" -> "\f"
      [] e = "n" -> "\n"
      [] e = "r" -> "\r"
      [] e = "t" -> "\t"
      [] OTHER -> e
HexValue(c) ==
    IF c \in DigitSet THEN DigitVal(c)
    ELSE CHOOSE d \in 10..15 : c \in {HexChars[d + 1], HexUpper[d + 1]}
IsHex(c) == c \in DigitSet \/ \E d \in 10..15 : c \in {HexChars[d + 1], HexUpper[d + 1]}
EscapedUnit(s, i) ==
    CharOfCode(4096 * HexValue(s[i + 2]) + 256 * HexValue(s[i + 3])
               + 16 * HexValue(s[i + 4]) + HexValue(s[i + 5]))

\* Whether the escape that starts at s[i] is one of the grammar.
IsEscape(s, i) ==
    /\ i < Len(s)
    /\ \/ s[i + 1] \in EscapeLetters
       \/ /\ s[i + 1] = "u"
          /\ i + 5 <= Len(s)
          /\ \A k \in (i + 2)..(i + 5) : IsHex(s[k])

\* A quoted run of characters and escapes, a character being anything but
\* the quote, the backslash and the controls.
IsJsonString(s) ==
    /\ Len(s) >= 2
    /\ s[1] = "\"" /\ s[Len(s)] = "\""
    /\ LET body == SubSeq(s, 2, Len(s) - 1)
       IN  \A i \in 1..Len(body) :
              IF StartsEscape(body, i) THEN IsEscape(body, i)
              ELSE InEscape(body, i) \/ body[i] \notin ({"\"", "\\"} \cup JsonControl)

\* The text a JSON string denotes: its characters, each escape being the
\* character it denotes.
JsonStringValue(s) ==
    LET body == SubSeq(s, 2, Len(s) - 1)
    IN  Concat([i \in 1..Len(body) |->
                   IF StartsEscape(body, i)
                   THEN (IF body[i + 1] = "u" THEN <<EscapedUnit(body, i)>>
                         ELSE <<EscapedChar(body[i + 1])>>)
                   ELSE IF InEscape(body, i) THEN <<>>
                   ELSE <<body[i]>>],
               1, Len(body))

RECURSIVE TextValue(_)
RECURSIVE ElementsValue(_)
RECURSIVE MembersValue(_)

\* The value the text s denotes, if it is one JSON value.
TextValue(s) ==
    LET u == JsonTrim(s)
        n == Len(u)
        inner == SubSeq(u, 2, n - 1)
    IN  IF n = 0 THEN NoValue
        ELSE IF u = Chars_null THEN Denotes(Null)
        ELSE IF u = Chars_true THEN Denotes(Bool(TRUE))
        ELSE IF u = Chars_false THEN Denotes(Bool(FALSE))
        ELSE IF IsJsonNumber(u) THEN Denotes(LiteralValue(u))
        ELSE IF IsJsonString(u) THEN Denotes(Str(JsonStringValue(u)))
        ELSE IF n >= 2 /\ u[1] = "[" /\ u[n] = "]"
        THEN IF JsonTrim(inner) = <<>> THEN Denotes(Arr(<<>>))
             ELSE LET es == ElementsValue(inner)
                  IN  IF es.ok THEN Denotes(Arr(es.v)) ELSE NoValue
        ELSE IF n >= 2 /\ u[1] = "{" /\ u[n] = "}"
        THEN IF JsonTrim(inner) = <<>> THEN Denotes(Obj(<<>>))
             ELSE LET ms == MembersValue(inner)
                  IN  IF ms.ok THEN Denotes(Obj(ms.v)) ELSE NoValue
        ELSE NoValue

\* The values of a comma-separated list of JSON values.
ElementsValue(s) ==
    LET whole == TextValue(s)
        cuts == {p \in 1..Len(s) :
                    /\ s[p] = ","
                    /\ TextValue(SubSeq(s, 1, p - 1)).ok
                    /\ ElementsValue(SubSeq(s, p + 1, Len(s))).ok}
    IN  IF whole.ok THEN Denotes(<<whole.v>>)
        ELSE IF cuts = {} THEN NoValue
        ELSE LET p == CHOOSE q \in cuts : TRUE
             IN  Denotes(<<TextValue(SubSeq(s, 1, p - 1)).v>>
                         \o ElementsValue(SubSeq(s, p + 1, Len(s))).v)

\* The key and value of one "key": value member.
MemberValue(s) ==
    LET cuts == {p \in 1..Len(s) :
                    /\ s[p] = ":"
                    /\ IsJsonString(JsonTrim(SubSeq(s, 1, p - 1)))
                    /\ TextValue(SubSeq(s, p + 1, Len(s))).ok}
    IN  IF cuts = {} THEN NoValue
        ELSE LET p == CHOOSE q \in cuts : TRUE
                 key == JsonTrim(SubSeq(s, 1, p - 1))
             IN  Denotes(Prop(Str(JsonStringValue(key)),
                              TextValue(SubSeq(s, p + 1, Len(s))).v))

\* The members of a comma-separated list of members, the last first so
\* that a repeated key takes its last value.
MembersValue(s) ==
    LET whole == MemberValue(s)
        cuts == {p \in 1..Len(s) :
                    /\ s[p] = ","
                    /\ MembersValue(SubSeq(s, 1, p - 1)).ok
                    /\ MemberValue(SubSeq(s, p + 1, Len(s))).ok}
    IN  IF whole.ok THEN Denotes(<<whole.v>>)
        ELSE IF cuts = {} THEN NoValue
        ELSE LET p == CHOOSE q \in cuts : TRUE
                 last == MemberValue(SubSeq(s, p + 1, Len(s))).v
             IN  Denotes(PutProp(MembersValue(SubSeq(s, 1, p - 1)).v, last.k, last.v))

\* C11: safeJsonParse(str, fallback) never throws; for every malformed text
\* it returns exactly the supplied fallback (null when none is given), and
\* for every valid JSON text it returns the value the whole text denotes,
\* whatever the fallback is, never the value of a valid part of the text.
C11_SafeParse ==
    Called("safeJsonParse") =>
        /\ Returned(out)
        /\ IsString(a) =>
              IF TextValue(a.s).ok
              THEN out = Return(TextValue(a.s).v)
              ELSE out = Return(IF b = Undefined THEN Null ELSE b)

\* A text that starts with a valid value and is malformed as a whole gives
\* the supplied fallback.
C11_Witness ==
    /\ Called("safeJsonParse")
    /\ a = Str(<<"[", "1", "]", ",">>)
    /\ b = Obj(<<>>)
    /\ out = Return(Obj(<<>>))

(***************************************************************************)
(* paranoidEquals                                                          *)
(***************************************************************************)
Contains(text, part) ==
    \E i \in 1..(Len(text) - Len(part) + 1) :
        SubSeq(text, i, i + Len(part) - 1) = part

\* Whether a == b.
LooselyEqual == IsLooselyEqual(a, b, same, <<>>).o.v.b

\* C12: for every pair (a, b), paranoidEquals(a, b) does not throw, its
\* report contains the result of a == b and the result of a === b, and it
\* contains the coercion warning exactly when a == b and not a === b.
C12_Original ==
    Called("paranoidEquals") =>
        /\ Returned(out)
        /\ Contains(out.v.s, LooseLabel \o BoolChars(LooselyEqual))
        /\ Contains(out.v.s, StrictLabel \o BoolChars(IsStrictlyEqual(a, b, same)))
        /\ Contains(out.v.s, CoercionWarning)
              <=> (LooselyEqual /\ ~IsStrictlyEqual(a, b, same))

====
